---- MODULE Spec2Model ----
(***************************************************************************)
(* erf: dependency-graph engine.                                           *)
(*                                                                         *)
(*   RDFModel          triple store (src/src/graph/RDFModel.js)            *)
(*   DependencyParser  per-file module facts (src/unnamed/part_002)        *)
(*   FileScanner       directory walk (src/unnamed/part_001)               *)
(*   GraphBuilder      four-phase build (src/src/analyzers/GraphBuilder.js)*)
(*   DeadCodeDetector  reachability (src/unnamed/part_003)                 *)
(*                                                                         *)
(* Strings are sequences of tokens, so that concatenation is \o and        *)
(* startsWith looks at the first token: the path "/r/a.js" is              *)
(* <<"/r/", "a", ".js">> and the URI "file:///r/a.js" is                   *)
(* <<"file://", "/r/", "a", ".js">>.                                       *)
(***************************************************************************)
EXTENDS Integers, Sequences, FiniteSets, TLC

(***************************************************************************)
(* Bounds of the model.                                                    *)
(***************************************************************************)
\* total number of import records and export declarations over all scanned files
MaxFacts == 2
\* number of detect() calls on one DeadCodeDetector
MaxDetect == 2
\* number of buildGraph calls made on one GraphBuilder
MaxBuilds == 2
\* number of Logger.init() calls that get past the initialized check
MaxInits == 2
\* the last second of the clock that names the log files
MaxTicks == 2
\* number of RDFModel calls a client makes before it runs the detector
MaxApiCalls == 4
\* largest number of File nodes for which the statistics are computed
MaxTotal == 201

Null == <<>>

Range(s) == {s[i] : i \in 1..Len(s)}

\* the elements of a set as a sequence, in some fixed order
RECURSIVE SetToSeq(_)
SetToSeq(S) ==
  IF S = {} THEN <<>>
  ELSE LET x == CHOOSE y \in S : TRUE IN <<x>> \o SetToSeq(S \ {x})

(***************************************************************************)
(* The scanned tree: rootDir holds up to three source files.               *)
(***************************************************************************)
RootDir == <<"/r/">>
Stems == <<"a", "b", "c">>
Ext == ".js"

\* FileScanner.scanDirectory: fullPath = join(dirPath, entry.name)
FullPath(stem) == RootDir \o <<stem, Ext>>

\* path.resolve(rootDir, p) for a relative p: a leading "./" is dropped
PathResolve(dir, p) == dir \o (IF Len(p) > 0 /\ p[1] = "./" THEN Tail(p) ELSE p)

\* String.prototype.startsWith
StartsWith(str, prefix) == Len(str) > 0 /\ str[1] = prefix

(***************************************************************************)
(* RDFModel: the dataset is an insertion-ordered set of quads.             *)
(***************************************************************************)
\* rdf.namedNode(id): the value of the node is the id it was given
CreateNode(id) == [t |-> "nn", v |-> id]

\* rdf.literal(value)
Literal(value) == [t |-> "lit", v |-> value]

\* RDFModel._getOrCreateNode: the cached node and a fresh one have the same value
GetOrCreateNode(id) == CreateNode(id)

\* the class nodes of the erf namespace
ErfClass(name) == CreateNode(<<"http://purl.org/stuff/erf/", name>>)

Quad(s, p, o) == [s |-> s, p |-> p, o |-> o]

\* a dataset that keeps a quad every time it is added
AddTripleNoDedup(ds, s, p, o) == Append(ds, Quad(s, p, o))

\* RDFModel.addTriple: dataset.add ignores a quad the dataset already holds
AddTriple(ds, s, p, o) ==
  IF Quad(s, p, o) \in Range(ds) THEN ds ELSE Append(ds, Quad(s, p, o))

\* dataset.match(s, p, o) for the patterns the model uses, in insertion order
MatchPO(ds, p, o) == SelectSeq(ds, LAMBDA q : q.p = p /\ q.o = o)
MatchSP(ds, s, p) == SelectSeq(ds, LAMBDA q : q.s = s.v /\ q.p = p)
MatchS(ds, s) == SelectSeq(ds, LAMBDA q : q.s = s.v)

Subjects(qs) == [i \in 1..Len(qs) |-> qs[i].s]
Objects(qs) == [i \in 1..Len(qs) |-> qs[i].o.v]

\* metadata of addFile: a field that is absent (undefined) is Null; numbers and
\* booleans are written as their string form, <<"0">> and <<"false">>
NoMeta == [size |-> Null, mtime |-> Null, loc |-> Null, parseError |-> Null,
           parseErrorMessage |-> Null, isMissing |-> Null]

AddIf(ds, cond, s, p, o) == IF cond THEN AddTriple(ds, s, p, o) ELSE ds

\* a registration that leaves out the parse-error attributes
AddFileNoParseError(ds, filePath, metadata) ==
  LET n  == CreateNode(filePath).v
      d0 == AddTriple(ds, n, "rdf:type", ErfClass("File"))
      d1 == AddIf(d0, metadata.size \notin {Null, <<"0">>}, n, "code:size",
                  Literal(metadata.size))
      d2 == AddIf(d1, metadata.mtime # Null, n, "code:lastModified",
                  Literal(metadata.mtime))
      d3 == AddIf(d2, metadata.loc \notin {Null, <<"0">>}, n, "code:loc",
                  Literal(metadata.loc))
  IN  AddIf(d3, metadata.isMissing # Null, n, "erf:isMissing",
            Literal(metadata.isMissing))

\* RDFModel.addFile
AddFile(ds, filePath, metadata) ==
  LET n  == CreateNode(filePath).v
      d0 == AddTriple(ds, n, "rdf:type", ErfClass("File"))
      d1 == AddIf(d0, metadata.size \notin {Null, <<"0">>}, n, "code:size",
                  Literal(metadata.size))
      d2 == AddIf(d1, metadata.mtime # Null, n, "code:lastModified",
                  Literal(metadata.mtime))
      d3 == AddIf(d2, metadata.loc \notin {Null, <<"0">>}, n, "code:loc",
                  Literal(metadata.loc))
      d4 == AddIf(d3, metadata.parseError # Null, n, "erf:parseError",
                  Literal(metadata.parseError))
      d5 == AddIf(d4, metadata.parseErrorMessage # Null, n, "erf:parseErrorMessage",
                  Literal(metadata.parseErrorMessage))
  IN  AddIf(d5, metadata.isMissing # Null, n, "erf:isMissing",
            Literal(metadata.isMissing))

\* RDFModel.addModule
AddModule(ds, modulePath, isExternal) ==
  LET n  == CreateNode(modulePath).v
      d0 == AddTriple(ds, n, "rdf:type", ErfClass("Module"))
  IN  AddIf(d0, isExternal, n, "erf:isExternal", Literal(<<"true">>))

\* RDFModel.addImport, with the reified Import node for line and type
AddImport(ds, fromId, toId, metadata) ==
  LET from == GetOrCreateNode(fromId)
      to   == GetOrCreateNode(toId)
      d0   == AddTriple(ds, from.v, "erf:imports", to)
      imp  == CreateNode(fromId \o <<"-imports-">> \o toId).v
      d1   == AddTriple(d0, imp, "rdf:type", ErfClass("Import"))
      d2   == AddTriple(d1, imp, "erf:from", from)
      d3   == AddTriple(d2, imp, "erf:to", to)
      d4   == AddIf(d3, metadata.line # Null, imp, "code:line", Literal(metadata.line))
      d5   == AddIf(d4, metadata.type # Null, imp, "erf:importType",
                    Literal(metadata.type))
  IN  IF metadata.line # Null \/ metadata.type # Null THEN d5 ELSE d0

\* RDFModel.addExport
AddExport(ds, fromId, exportName, metadata) ==
  LET from == GetOrCreateNode(fromId)
      exp  == CreateNode(fromId \o <<"#export:">> \o exportName)
      d0   == AddTriple(ds, from.v, "erf:exports", exp)
      d1   == AddTriple(d0, exp.v, "rdfs:label", Literal(exportName))
      d2   == AddIf(d1, metadata.type # Null, exp.v, "erf:exportType",
                    Literal(metadata.type))
  IN  AddIf(d2, metadata.line # Null, exp.v, "code:line", Literal(metadata.line))

\* RDFModel.markAsEntryPoint
MarkAsEntryPoint(ds, nodeId) ==
  AddTriple(ds, GetOrCreateNode(nodeId).v, "erf:isEntryPoint", Literal(<<"true">>))

\* RDFModel.queryNodesByType: the ids of the nodes of a type, in insertion order
QueryNodesByType(ds, type) ==
  Subjects(MatchPO(ds, "rdf:type",
                   ErfClass(CASE type = "file" -> "File"
                              [] type = "module" -> "Module"
                              [] type = "function" -> "Function"
                              [] OTHER -> "Class")))

\* RDFModel.queryImports
QueryImports(ds, nodeId) == Objects(MatchSP(ds, GetOrCreateNode(nodeId), "erf:imports"))

\* RDFModel.queryExports: the label of every export node of the file
QueryExports(ds, nodeId) ==
  LET qs == MatchSP(ds, GetOrCreateNode(nodeId), "erf:exports")
  IN  [i \in 1..Len(qs) |->
         LET ls == MatchSP(ds, qs[i].o, "rdfs:label")
         IN  IF Len(ls) > 0 THEN ls[1].o.v ELSE Null]

\* RDFModel.queryEntryPoints
QueryEntryPoints(ds) == Subjects(MatchPO(ds, "erf:isEntryPoint", Literal(<<"true">>)))

\* RDFModel.queryExternalModules
QueryExternalModules(ds) == Subjects(MatchPO(ds, "erf:isExternal", Literal(<<"true">>)))

\* RDFModel.getStats: one pass over the quads of the dataset
GetStats(ds) ==
  LET Count(P(_)) == Cardinality({i \in 1..Len(ds) : P(ds[i])})
      IsType(q, name) == q.p = "rdf:type" /\ q.o = ErfClass(name)
  IN  [totalTriples    |-> Len(ds),
       files           |-> Count(LAMBDA q : IsType(q, "File")),
       modules         |-> Count(LAMBDA q : IsType(q, "Module")),
       functions       |-> Count(LAMBDA q : IsType(q, "Function")),
       classes         |-> Count(LAMBDA q : IsType(q, "Class")),
       imports         |-> Count(LAMBDA q : q.p = "erf:imports"),
       exports         |-> Count(LAMBDA q : q.p = "erf:exports"),
       calls           |-> Count(LAMBDA q : q.p = "erf:calls"),
       entryPoints     |-> Count(LAMBDA q : q.p = "erf:isEntryPoint"),
       externalModules |-> Count(LAMBDA q : q.p = "erf:isExternal")]

\* the property name getNodeMetadata derives from a predicate IRI: the part
\* after '#', or else after the last '/'
PropName(p) ==
  CASE p = "rdf:type" -> "type"
    [] p = "rdfs:label" -> "label"
    [] p = "code:size" -> "size"
    [] p = "code:lastModified" -> "lastModified"
    [] p = "code:loc" -> "loc"
    [] p = "code:line" -> "line"
    [] p = "erf:parseError" -> "parseError"
    [] p = "erf:parseErrorMessage" -> "parseErrorMessage"
    [] p = "erf:isMissing" -> "isMissing"
    [] p = "erf:isEntryPoint" -> "isEntryPoint"
    [] p = "erf:isExternal" -> "isExternal"
    [] p = "erf:imports" -> "imports"
    [] p = "erf:exports" -> "exports"
    [] p = "erf:importType" -> "importType"
    [] p = "erf:from" -> "from"
    [] p = "erf:to" -> "to"
    [] OTHER -> p

\* RDFModel.getNodeMetadata: the quads of the node are visited in the order
\* the dataset holds them and each one overwrites the property it names
GetNodeMetadata(ds, nodeId) ==
  LET node  == GetOrCreateNode(nodeId)
      quads == MatchS(ds, node)
      names == {PropName(quads[i].p) : i \in 1..Len(quads)}
      Last(name) == CHOOSE i \in 1..Len(quads) :
                      /\ PropName(quads[i].p) = name
                      /\ \A j \in (i + 1)..Len(quads) : PropName(quads[j].p) # name
  IN  [id |-> node.v, props |-> [name \in names |-> quads[Last(name)].o.v]]

\* RDFModel.addFunction
AddFunction(ds, functionId, metadata) ==
  LET n  == CreateNode(functionId).v
      d0 == AddTriple(ds, n, "rdf:type", ErfClass("Function"))
  IN  AddIf(d0, metadata.name # Null, n, "rdfs:label", Literal(metadata.name))

(***************************************************************************)
(* DependencyParser: the facts of one file.                                *)
(***************************************************************************)
\* import specifiers a source file may hold: relative with and without a
\* file-type suffix, a package name, and Null for a non-literal require()
Specifiers == {<<"./", "a", ".js">>, <<"./", "b">>, <<"./", "c", ".js">>, <<"pkg">>, Null}

\* the export declarations a source file may hold
ExportDefault == [type |-> <<"default">>, specifiers |-> <<>>, property |-> Null,
                  kind |-> Null]
ExportLists == {<<>>, <<ExportDefault>>}

\* a specifier that starts with '.' or '/'
IsLocalSpecifier(importPath) ==
  StartsWith(importPath, "./") \/ StartsWith(importPath, "/r/")

\* path.dirname of a file of the scanned tree
Dirname(filePath) == SubSeq(filePath, 1, Len(filePath) - 2)

\* DependencyParser.resolveImportPath: the first candidate suffix is taken
\* without looking at the file system
ResolveImportPath(importPath, fromFile) ==
  IF ~IsLocalSpecifier(importPath)
  THEN [type |-> "external", path |-> importPath]
  ELSE LET resolved == PathResolve(Dirname(fromFile), importPath)
       IN  [type |-> "relative",
            path |-> IF resolved[Len(resolved)] # Ext
                     THEN resolved \o <<".js">> ELSE resolved]

\* DependencyParser.extractDependencies: one import record per declaration,
\* on the line of its position, with the resolved path added
ExtractDependencies(specs, exps, filePath) ==
  [imports |-> [i \in 1..Len(specs) |->
                  [type |-> IF specs[i] = Null THEN <<"require">> ELSE <<"import">>,
                   source |-> specs[i],
                   line |-> <<ToString(i)>>,
                   resolvedPath |-> IF specs[i] # Null
                                    THEN ResolveImportPath(specs[i], filePath)
                                    ELSE [type |-> "none", path |-> Null]]],
   exports |-> [i \in 1..Len(exps) |->
                  [type |-> exps[i].type, specifiers |-> exps[i].specifiers,
                   property |-> exps[i].property, kind |-> exps[i].kind,
                   line |-> <<ToString(Len(specs) + i)>>]],
   functions |-> <<>>,
   error |-> Null]

\* DependencyParser.parseFile when reading or parsing fails: the error is data
ParseFailure == [imports |-> <<>>, exports |-> <<>>, functions |-> <<>>,
                 error |-> <<"SyntaxError">>]

\* parseFile's cache.set(filePath, result)
CacheAfter(c, filePath, deps) ==
  IF deps.error = Null THEN [q \in DOMAIN c \cup {filePath} |->
                               IF q = filePath THEN deps ELSE c[q]]
  ELSE c

\* the value a block yields, or the exception that leaves it, with the
\* grammars parse() was called with on the way
Returns(value, attempts) ==
  [raised |-> FALSE, value |-> value, error |-> Null, attempts |-> attempts]
Throws(error, attempts) ==
  [raised |-> TRUE, value |-> Null, error |-> error, attempts |-> attempts]

\* what @babel/parser makes of a source text under one grammar: the facts
\* extractDependencies collects from the tree, or the error parse() throws
Parsed(deps) == [ok |-> TRUE, deps |-> deps]
Rejected(message) == [ok |-> FALSE, message |-> message]

\* DependencyParser.parseSource: sourceType 'module', then in the catch
\* sourceType 'script', and when that throws too the first error again
ParseSource(source, filePath) ==
  IF source.module.ok THEN Returns(source.module.deps, <<"module">>)
  ELSE IF source.script.ok THEN Returns(source.script.deps, <<"module", "script">>)
  ELSE Throws(source.module.message, <<"module", "script">>)

\* the object parseFile's catch returns
FailureResult(message) ==
  [imports |-> <<>>, exports |-> <<>>, calls |-> <<>>, error |-> message]

\* the try block of parseFile: fs.readFile, parseSource, cache.set
ParseFileBody(c, filePath, file) ==
  LET r == IF file.readable THEN ParseSource(file.source, filePath)
           ELSE Throws(<<"ENOENT">>, <<>>)
  IN  [outcome |-> r,
       cache |-> IF r.raised THEN c ELSE CacheAfter(c, filePath, r.value)]

\* parseFile without its catch: what the try block throws leaves the call
ParseFileNoCatch(c, filePath, file) ==
  IF filePath \in DOMAIN c THEN [outcome |-> Returns(c[filePath], <<>>), cache |-> c]
  ELSE ParseFileBody(c, filePath, file)

\* parseFile without the cache check: every call reads and parses the file
ParseFileUnchecked(c, filePath, file) ==
  LET b == ParseFileBody(c, filePath, file)
  IN  IF b.outcome.raised
      THEN [outcome |-> Returns(FailureResult(b.outcome.error), b.outcome.attempts),
            cache |-> b.cache]
      ELSE b

\* DependencyParser.parseFile: the cached result, or the try block, or the
\* failure object of the catch
ParseFile(c, filePath, file) ==
  IF filePath \in DOMAIN c THEN [outcome |-> Returns(c[filePath], <<>>), cache |-> c]
  ELSE LET b == ParseFileBody(c, filePath, file)
       IN  IF b.outcome.raised
           THEN [outcome |-> Returns(FailureResult(b.outcome.error), b.outcome.attempts),
                 cache |-> b.cache]
           ELSE b

(***************************************************************************)
(* package.json, as _inferEntryPointsFromPackageJson reads it.             *)
(***************************************************************************)
Absent == [k |-> "none"]
Str(v) == [k |-> "str", v |-> v]
Obj(entries) == [k |-> "obj", entries |-> entries]
Entry(key, value) == [key |-> key, value |-> value]

PackageJson(main, bin, exports) ==
  [readable |-> TRUE, main |-> main, bin |-> bin, exports |-> exports]

\* a package.json that is absent or is not valid JSON
Unreadable == [readable |-> FALSE, main |-> Null, bin |-> Absent, exports |-> Absent]

\* the project descriptors of the runs
Manifests ==
  { Unreadable,
    PackageJson(Null, Absent, Absent),
    PackageJson(<<"a", ".js">>, Obj(<<Entry(<<"erf">>, Str(<<"c", ".js">>))>>), Absent),
    PackageJson(Null, Str(<<"b", ".js">>),
                Obj(<<Entry(<<".">>, Str(<<"./", "a", ".js">>))>>)),
    PackageJson(Null, Absent,
                Obj(<<Entry(<<".">>,
                            Obj(<<Entry(<<"import">>, Str(<<"./", "c", ".js">>))>>))>>)),
    PackageJson(<<"a", ".js">>, Absent,
                Obj(<<Entry(<<".">>,
                            Obj(<<Entry(<<"node">>,
                                        Obj(<<Entry(<<"import">>,
                                                    Str(<<"./", "c", ".js">>))>>))>>))>>)) }

\* the values of packageJson.bin: the string, or Object.values of the map
BinPaths(bin) ==
  CASE bin.k = "str" -> <<PathResolve(RootDir, bin.v)>>
    [] bin.k = "obj" -> [i \in 1..Len(bin.entries) |->
                           PathResolve(RootDir, bin.entries[i].value.v)]
    [] OTHER -> <<>>

\* extractExports of _inferEntryPointsFromPackageJson: a map is followed under
\* a key that starts with '.', under any other key only a string is taken
RECURSIVE ExtractExports(_)
RECURSIVE ExtractEntries(_, _)
ExtractExports(exports) ==
  CASE exports.k = "str" -> <<PathResolve(RootDir, exports.v)>>
    [] exports.k = "obj" -> ExtractEntries(exports.entries, 1)
    [] OTHER -> <<>>
ExtractEntries(entries, i) ==
  IF i > Len(entries) THEN <<>>
  ELSE (IF StartsWith(entries[i].key, ".") \/ StartsWith(entries[i].key, "./")
        THEN ExtractExports(entries[i].value)
        ELSE IF entries[i].value.k = "str"
             THEN <<PathResolve(RootDir, entries[i].value.v)>>
             ELSE <<>>)
       \o ExtractEntries(entries, i + 1)

\* inferredEntryPoints: main, then bin, then exports
InferredEntryPoints(packageJson) ==
  (IF packageJson.main # Null THEN <<PathResolve(RootDir, packageJson.main)>> ELSE <<>>)
  \o BinPaths(packageJson.bin)
  \o ExtractExports(packageJson.exports)

(***************************************************************************)
(* State.                                                                  *)
(***************************************************************************)
VARIABLES
  input,        \* the arguments of the client's calls: those made so far, or those to come
  cache,        \* DependencyParser.cache: the result kept for each parsed path
  config,       \* GraphBuilder.config: [entryPoints: sequence of relative paths]
  disk,         \* the stems of the source files under rootDir
  pc,           \* position of buildGraph, or the mode of the run
  files,        \* scanResult.files
  parsedFiles,  \* buildGraph's parsedFiles
  registered,   \* number of parsedFiles already added as File nodes
  dataset,      \* RDFModel.dataset of the graph
  markLog,      \* what each step of _markEntryPoints flagged (its console log)
  detector,     \* DeadCodeDetector.visited and .reachable, once constructed
  result,       \* the value returned by the last detect()
  detects,      \* number of detect() calls made on the detector
  calls,        \* number of RDFModel calls a client has made
  counts,       \* the list lengths handed to detect()'s statistics
  logger        \* the Logger singleton, loglevel's methods and the logs directory

vars == <<input, cache, config, disk, pc, files, parsedFiles, registered, dataset, markLog,
          detector, result, detects, calls, counts, logger>>

\* new Logger(), with loglevel as it is loaded: no init() under way, the
\* original methodFactory and the methods built from it
NoLogger == [initialized |-> FALSE, stdoutEnabled |-> TRUE, currentLogFile |-> Absent,
             factory |-> 0, methods |-> 0, ensuring |-> 0, rotating |-> 0,
             started |-> 0, rotations |-> 0, named |-> 0, logs |-> {},
             appended |-> <<>>, clock |-> 1]

NoLog == [ran |-> FALSE, configFlagged |-> {}, inferRan |-> FALSE, inferred |-> 0,
          inferFlagged |-> {}, autoRan |-> FALSE, autoFlagged |-> {},
          fallbackRan |-> FALSE, manifest |-> Unreadable]

NoDetector == [made |-> FALSE, visited |-> {}, reachable |-> {}]

NoResult == [returned |-> FALSE]

NoInput == <<>>

\* new Map()
EmptyCache == <<>>

(***************************************************************************)
(* GraphBuilder.                                                           *)
(***************************************************************************)
\* config.entryPoints of the runs
Configs == {<<>>, << <<"a", ".js">> >>, << <<"b", ".js">>, <<"zz", ".js">> >>}

\* FileScanner.getFileInfo
FileInfo(stem) == [path |-> FullPath(stem), size |-> <<"64">>,
                   modified |-> <<"2025-01-01T00:00:00.000Z">>]

\* GraphBuilder._countLOC: one counted line per import and export declaration
CountLOC(dependencies) ==
  <<ToString(Len(dependencies.imports) + Len(dependencies.exports))>>

\* GraphBuilder._isExternalPackage
IsExternalPackage(modulePath) ==
  IF modulePath = Null THEN FALSE
  ELSE ~StartsWith(modulePath, "./") /\ ~StartsWith(modulePath, "/r/")

ImportMeta(imp) == [line |-> imp.line, type |-> imp.type]

\* an import loop that adds the edge to an absent target without a node for it
AddOneImportNoMissingNode(ds, filePath, imp, scannedFiles) ==
  IF IsExternalPackage(imp.source)
  THEN AddImport(AddModule(ds, imp.source, TRUE), filePath, imp.source, ImportMeta(imp))
  ELSE IF imp.resolvedPath.path # Null
       THEN AddImport(ds, filePath, imp.resolvedPath.path, ImportMeta(imp))
       ELSE ds

\* an import loop that registers an absent target as an ordinary File node
AddOneImportUnflagged(ds, filePath, imp, scannedFiles) ==
  IF IsExternalPackage(imp.source)
  THEN AddImport(AddModule(ds, imp.source, TRUE), filePath, imp.source, ImportMeta(imp))
  ELSE IF imp.resolvedPath.path # Null
       THEN AddImport(AddFile(ds, imp.resolvedPath.path, NoMeta),
                      filePath, imp.resolvedPath.path, ImportMeta(imp))
       ELSE ds

\* buildGraph, the body of "for (const imp of dependencies.imports)"
AddOneImport(ds, filePath, imp, scannedFiles) ==
  IF IsExternalPackage(imp.source)
  THEN AddImport(AddModule(ds, imp.source, TRUE), filePath, imp.source, ImportMeta(imp))
  ELSE IF imp.resolvedPath.path # Null
       THEN IF imp.resolvedPath.path \in scannedFiles
            THEN AddImport(ds, filePath, imp.resolvedPath.path, ImportMeta(imp))
            ELSE AddImport(AddFile(ds, imp.resolvedPath.path,
                                   [NoMeta EXCEPT !.isMissing = <<"true">>]),
                           filePath, imp.resolvedPath.path, ImportMeta(imp))
       ELSE ds

\* buildGraph, "Named exports - add each specifier"
RECURSIVE AddNamedExports(_, _, _, _, _)
AddNamedExports(ds, filePath, specifiers, i, line) ==
  IF i > Len(specifiers) THEN ds
  ELSE AddNamedExports(AddExport(ds, filePath, specifiers[i],
                                 [type |-> <<"named">>, line |-> line]),
                       filePath, specifiers, i + 1, line)

\* buildGraph, the body of "for (const exp of dependencies.exports)"
AddOneExport(ds, filePath, exp) ==
  CASE exp.type = <<"named">> ->
         AddNamedExports(ds, filePath, exp.specifiers, 1, exp.line)
    [] exp.type = <<"default">> ->
         AddExport(ds, filePath, <<"default">>,
                   [type |-> <<"default">>, line |-> exp.line])
    [] exp.type = <<"all">> ->
         AddExport(ds, filePath, <<"*">>, [type |-> <<"all">>, line |-> exp.line])
    [] exp.type = <<"commonjs">> ->
         AddExport(ds, filePath,
                   IF exp.property # Null THEN exp.property ELSE <<"module.exports">>,
                   [type |-> <<"commonjs">>, line |-> exp.line])
    [] OTHER -> ds

\* buildGraph, the body of "for (const func of dependencies.functions || [])"
AddOneFunction(ds, filePath, func) ==
  AddFunction(ds, filePath \o <<"#">> \o func.name, [name |-> func.name])

RECURSIVE AddImportsFrom(_, _, _, _, _)
AddImportsFrom(ds, filePath, imports, i, scannedFiles) ==
  IF i > Len(imports) THEN ds
  ELSE AddImportsFrom(AddOneImport(ds, filePath, imports[i], scannedFiles),
                      filePath, imports, i + 1, scannedFiles)

RECURSIVE AddExportsFrom(_, _, _, _)
AddExportsFrom(ds, filePath, exports, i) ==
  IF i > Len(exports) THEN ds
  ELSE AddExportsFrom(AddOneExport(ds, filePath, exports[i]), filePath, exports, i + 1)

RECURSIVE AddFunctionsFrom(_, _, _, _)
AddFunctionsFrom(ds, filePath, functions, i) ==
  IF i > Len(functions) THEN ds
  ELSE AddFunctionsFrom(AddOneFunction(ds, filePath, functions[i]),
                        filePath, functions, i + 1)

\* buildGraph, the body of "Add all files as nodes"
RegisterFile(ds, p) ==
  AddFile(ds, p.file.path,
          [NoMeta EXCEPT
             !.size = p.file.size,
             !.mtime = p.file.modified,
             !.loc = CountLOC(p.dependencies),
             !.parseError = IF p.dependencies.error # Null
                            THEN <<"true">> ELSE <<"false">>,
             !.parseErrorMessage = p.dependencies.error])

\* dependencies.functions || []
FunctionsOf(deps) == IF "functions" \in DOMAIN deps THEN deps.functions ELSE <<>>

\* buildGraph, "Add all dependencies as edges": imports, exports and
\* functions of every parsed file, in the order of parsedFiles
RECURSIVE AddDependencies(_, _, _, _)
AddDependencies(ds, parsed, i, scannedFiles) ==
  IF i > Len(parsed) THEN ds
  ELSE LET path == parsed[i].file.path
           deps == parsed[i].dependencies
           d1   == AddImportsFrom(ds, path, deps.imports, 1, scannedFiles)
           d2   == AddExportsFrom(d1, path, deps.exports, 1)
           d3   == AddFunctionsFrom(d2, path, FunctionsOf(deps), 1)
       IN  AddDependencies(d3, parsed, i + 1, scannedFiles)

\* a step of entry-point marking returns the dataset, the ids it flagged
\* and the count it reports
Flagged(ds, ids, n) == [ds |-> ds, ids |-> ids, n |-> n]

\* _inferEntryPointsFromPackageJson, "Mark all inferred entry points"
RECURSIVE MarkInferred(_, _, _)
MarkInferred(acc, inferredEntryPoints, i) ==
  IF i > Len(inferredEntryPoints) THEN acc
  ELSE LET entryPoint == inferredEntryPoints[i]
           fileExists == entryPoint \in Range(QueryNodesByType(acc.ds, "file"))
       IN  MarkInferred(IF fileExists
                        THEN Flagged(MarkAsEntryPoint(acc.ds, entryPoint),
                                     acc.ids \cup {entryPoint}, acc.n + 1)
                        ELSE acc,
                        inferredEntryPoints, i + 1)

\* GraphBuilder._inferEntryPointsFromPackageJson: a read or parse error is
\* caught and counts as nothing inferred
InferEntryPointsFromPackageJson(ds, packageJson) ==
  IF ~packageJson.readable THEN Flagged(ds, {}, 0)
  ELSE MarkInferred(Flagged(ds, {}, 0), InferredEntryPoints(packageJson), 1)

RECURSIVE MarkAll(_, _, _)
MarkAll(ds, ids, i) ==
  IF i > Len(ids) THEN ds ELSE MarkAll(MarkAsEntryPoint(ds, ids[i]), ids, i + 1)

\* the ids of the imports of the given files that start with "file://"
RECURSIVE FileImportTargets(_, _, _)
FileImportTargets(ds, fileIds, i) ==
  IF i > Len(fileIds) THEN {}
  ELSE {t \in Range(QueryImports(ds, fileIds[i])) : StartsWith(t, "file://")}
       \cup FileImportTargets(ds, fileIds, i + 1)

\* auto-detection that collects every import target, whatever its id starts with
AutoDetectByIncoming(ds) ==
  LET fileIds == QueryNodesByType(ds, "file")
      targets == UNION {Range(QueryImports(ds, fileIds[i])) : i \in 1..Len(fileIds)}
      entries == SelectSeq(fileIds, LAMBDA f : f \notin targets)
  IN  Flagged(MarkAll(ds, entries, 1), Range(entries), Len(entries))

\* GraphBuilder._autoDetectEntryPoints: flags every File node that is not
\* among the collected import targets
AutoDetectEntryPoints(ds) ==
  LET fileIds          == QueryNodesByType(ds, "file")
      allImportTargets == FileImportTargets(ds, fileIds, 1)
      entries          == SelectSeq(fileIds, LAMBDA f : f \notin allImportTargets)
  IN  Flagged(MarkAll(ds, entries, 1), Range(entries), Len(entries))

\* _markEntryPoints, the loop over config.entryPoints
RECURSIVE MarkConfigured(_, _, _)
MarkConfigured(acc, entryPoints, i) ==
  IF i > Len(entryPoints) THEN acc
  ELSE LET absolutePath == PathResolve(RootDir, entryPoints[i])
           fileUri      == <<"file://">> \o absolutePath
           fileExists   == fileUri \in Range(QueryNodesByType(acc.ds, "file"))
       IN  MarkConfigured(IF fileExists
                          THEN Flagged(MarkAsEntryPoint(acc.ds, absolutePath),
                                       acc.ids \cup {absolutePath}, acc.n + 1)
                          ELSE acc,
                          entryPoints, i + 1)

\* entry-point marking in which configured entries suppress auto-detection
MarkEntryPointsNoSupplement(ds, entryPoints, packageJson) ==
  LET a == MarkConfigured(Flagged(ds, {}, 0), entryPoints, 1)
  IN  IF Len(entryPoints) = 0
      THEN LET b == InferEntryPointsFromPackageJson(a.ds, packageJson)
               c == AutoDetectEntryPoints(b.ds)
           IN  IF b.n = 0
               THEN [ds  |-> IF c.n = 0
                             THEN MarkAll(c.ds, QueryNodesByType(c.ds, "file"), 1)
                             ELSE c.ds,
                     log |-> [NoLog EXCEPT !.ran = TRUE, !.inferRan = TRUE,
                                !.autoRan = TRUE, !.fallbackRan = (c.n = 0),
                                !.autoFlagged = c.ids]]
               ELSE [ds  |-> b.ds,
                     log |-> [NoLog EXCEPT !.ran = TRUE, !.inferRan = TRUE,
                                !.inferred = b.n, !.inferFlagged = b.ids]]
      ELSE [ds |-> a.ds, log |-> [NoLog EXCEPT !.ran = TRUE, !.configFlagged = a.ids]]

\* GraphBuilder._markEntryPoints: the dataset it leaves and the log of its steps
MarkEntryPoints(ds, entryPoints, packageJson) ==
  LET a == MarkConfigured(Flagged(ds, {}, 0), entryPoints, 1)
  IN  IF Len(entryPoints) = 0
      THEN LET b == InferEntryPointsFromPackageJson(a.ds, packageJson)
           IN  IF b.n = 0
               THEN LET c == AutoDetectEntryPoints(b.ds)
                    IN  IF c.n = 0
                        THEN [ds  |-> MarkAll(c.ds, QueryNodesByType(c.ds, "file"), 1),
                              log |-> [NoLog EXCEPT !.ran = TRUE, !.inferRan = TRUE,
                                         !.autoRan = TRUE, !.fallbackRan = TRUE]]
                        ELSE [ds  |-> c.ds,
                              log |-> [NoLog EXCEPT !.ran = TRUE, !.inferRan = TRUE,
                                         !.autoRan = TRUE, !.autoFlagged = c.ids]]
               ELSE [ds  |-> b.ds,
                     log |-> [NoLog EXCEPT !.ran = TRUE, !.inferRan = TRUE,
                                !.inferred = b.n, !.inferFlagged = b.ids]]
      ELSE LET c == AutoDetectEntryPoints(a.ds)
           IN  [ds  |-> c.ds,
                log |-> [NoLog EXCEPT !.ran = TRUE, !.configFlagged = a.ids,
                           !.autoRan = TRUE, !.autoFlagged = c.ids]]

(***************************************************************************)
(* IEEE-754 double arithmetic for Math.round((r / n) * 100), 0 < r < n.    *)
(* A 53-bit mantissa and the 60-bit product are held in three limbs of 20  *)
(* bits, most significant first, so that every step fits a 32-bit integer. *)
(***************************************************************************)
MantissaBits == 53

RECURSIVE Pow2(_)
Pow2(k) == IF k = 0 THEN 1 ELSE 2 * Pow2(k - 1)

Limb == Pow2(20)

\* number of zero bits of r/n after the binary point, before its first 1
RECURSIVE LeadingZeros(_, _)
LeadingZeros(rem, n) == IF 2 * rem >= n THEN 0 ELSE 1 + LeadingZeros(2 * rem, n)

\* number of bits of a positive integer
RECURSIVE BitLength(_)
BitLength(x) == IF x = 0 THEN 0 ELSE 1 + BitLength(x \div 2)

\* round to nearest, ties to even: whether the kept part goes up by one, from
\* the dropped part, its weight (dropped / unit is the fraction) and the
\* parity of the kept part
RoundsUp(dropped, unit, keptIsOdd) ==
  2 * dropped > unit \/ (2 * dropped = unit /\ keptIsOdd)

\* Math.round((r / n) * 100) in doubles: the quotient is rounded to a
\* mantissa, the product is rounded again, and Math.round takes the nearest
\* integer with a half going up
RoundedPercent(r, n) ==
  LET z    == LeadingZeros(r, n)
      \* r/n = 0.[z zeros]1...: the mantissa is floor(r * 2^(z+53) / n),
      \* by long division in limbs of 13, 20 and 20 bits
      n0   == r * Pow2(z) * Pow2(MantissaBits - 40)
      d0   == n0 \div n
      d1   == ((n0 % n) * Limb) \div n
      r2   == ((n0 % n) * Limb) % n
      d2   == (r2 * Limb) \div n
      r3   == (r2 * Limb) % n
      m2   == d2 + (IF RoundsUp(r3, n, d2 % 2 = 1) THEN 1 ELSE 0)
      m1   == d1 + m2 \div Limb
      m0   == d0 + m1 \div Limb
      \* the exact product 100 * mantissa
      q2   == 100 * (m2 % Limb)
      q1   == 100 * (m1 % Limb) + q2 \div Limb
      p0   == 100 * m0 + q1 \div Limb
      p1   == q1 % Limb
      p2   == q2 % Limb
      \* rounded to 53 bits: the low bits beyond the mantissa are dropped
      drop == 40 + BitLength(p0) - MantissaBits
      kept == p2 \div Pow2(drop)
      y2   == (kept + (IF RoundsUp(p2 % Pow2(drop), Pow2(drop), kept % 2 = 1)
                       THEN 1 ELSE 0)) * Pow2(drop)
      y1   == p1 + y2 \div Limb
      y0   == p0 + y1 \div Limb
      \* the product is (y0 * 2^40 + ...) / 2^(z+53); Math.round adds a half
      \* and takes the floor
  IN  ((y0 \div Pow2(z + MantissaBits - 41)) + 1) \div 2

\* a percentage that is truncated instead of rounded
FloorPercentage(reachableLen, totalLen) ==
  IF totalLen > 0 THEN (100 * reachableLen) \div totalLen ELSE 0

\* detect(), stats.reachabilityPercentage
ReachabilityPercentage(reachableLen, totalLen) ==
  IF totalLen > 0
  THEN (IF reachableLen = 0 THEN 0
        ELSE IF reachableLen = totalLen THEN 100
        ELSE RoundedPercent(reachableLen, totalLen))
  ELSE 0

(***************************************************************************)
(* DeadCodeDetector.                                                       *)
(***************************************************************************)
\* _traverseFromNode that also walks into external modules
RECURSIVE TraverseIntoExternal(_, _, _)
RECURSIVE TraverseImportsIntoExternal(_, _, _, _)
TraverseIntoExternal(ds, nodeId, st) ==
  IF nodeId \in st.visited THEN st
  ELSE TraverseImportsIntoExternal(ds, QueryImports(ds, nodeId), 1,
                      [st EXCEPT !.visited = @ \cup {nodeId},
                                 !.reachable = @ \cup {nodeId}])
TraverseImportsIntoExternal(ds, imports, i, st) ==
  IF i > Len(imports) THEN st
  ELSE TraverseImportsIntoExternal(ds, imports, i + 1,
                                   TraverseIntoExternal(ds, imports[i], st))

\* DeadCodeDetector._traverseFromNode: depth-first marking, guarded by
\* this.visited; st is the detector's [visited, reachable]
RECURSIVE TraverseFromNode(_, _, _)
RECURSIVE TraverseImports(_, _, _, _)
TraverseFromNode(ds, nodeId, st) ==
  IF nodeId \in st.visited THEN st
  ELSE TraverseImports(ds, QueryImports(ds, nodeId), 1,
                       [st EXCEPT !.visited = @ \cup {nodeId},
                                  !.reachable = @ \cup {nodeId}])
TraverseImports(ds, imports, i, st) ==
  IF i > Len(imports) THEN st
  ELSE LET isExternal == imports[i] \in Range(QueryExternalModules(ds))
       IN  TraverseImports(ds, imports, i + 1,
                           IF ~isExternal THEN TraverseFromNode(ds, imports[i], st)
                           ELSE st)

\* detect(), "Traverse from each entry point"
RECURSIVE TraverseAll(_, _, _, _)
TraverseAll(ds, entryPoints, i, st) ==
  IF i > Len(entryPoints) THEN st
  ELSE TraverseAll(ds, entryPoints, i + 1, TraverseFromNode(ds, entryPoints[i], st))

\* a check that also counts the file's import of itself
IsExportUsedBySelf(ds, filePath, exportName) ==
  \E f \in Range(QueryNodesByType(ds, "file")) :
    filePath \in Range(QueryImports(ds, f))

\* DeadCodeDetector._isExportUsed: some other File node imports the file
IsExportUsed(ds, filePath, exportName) ==
  \E f \in Range(QueryNodesByType(ds, "file")) :
    f # filePath /\ filePath \in Range(QueryImports(ds, f))

\* the value of a search that found no path (null)
NoPath == Null

\* DeadCodeDetector._findPath, the loop over the imports of the path taken
\* from the queue: the path to the target as soon as an import is the target,
\* else the queue and the visited set after the loop
RECURSIVE ScanImports(_, _, _, _, _, _)
ScanImports(imports, i, path, queue, visited, targetId) ==
  IF i > Len(imports) THEN [found |-> NoPath, queue |-> queue, visited |-> visited]
  ELSE IF imports[i] = targetId
       THEN [found |-> Append(path, imports[i]), queue |-> queue, visited |-> visited]
       ELSE IF imports[i] \notin visited
            THEN ScanImports(imports, i + 1, path, Append(queue, Append(path, imports[i])),
                             visited \cup {imports[i]}, targetId)
            ELSE ScanImports(imports, i + 1, path, queue, visited, targetId)

\* DeadCodeDetector._findPath, the while loop over the queue of paths
RECURSIVE SearchQueue(_, _, _, _)
SearchQueue(ds, queue, visited, targetId) ==
  IF Len(queue) = 0 THEN NoPath
  ELSE LET path    == Head(queue)
           current == path[Len(path)]
           r       == ScanImports(QueryImports(ds, current), 1, path, Tail(queue),
                                  visited, targetId)
       IN  IF r.found # NoPath THEN r.found
           ELSE SearchQueue(ds, r.queue, r.visited, targetId)

\* a search that looks at the imports of the start node only
FindPathOneStep(ds, startId, targetId) ==
  IF startId = targetId THEN <<startId>>
  ELSE IF targetId \in Range(QueryImports(ds, startId)) THEN <<startId, targetId>>
  ELSE NoPath

\* DeadCodeDetector._findPath: breadth-first search along imports edges
FindPath(ds, startId, targetId) ==
  IF startId = targetId THEN <<startId>>
  ELSE SearchQueue(ds, << <<startId>> >>, {startId}, targetId)

\* the loop of getReachabilityPath over the entry points
RECURSIVE FirstPath(_, _, _, _)
FirstPath(ds, entryPoints, i, filePath) ==
  IF i > Len(entryPoints) THEN NoPath
  ELSE LET path == FindPath(ds, entryPoints[i], filePath)
       IN  IF path # NoPath THEN path ELSE FirstPath(ds, entryPoints, i + 1, filePath)

\* a search that gives up after the first entry point
GetReachabilityPathFirstEntry(ds, filePath) ==
  LET entryPoints == QueryEntryPoints(ds)
  IN  IF Len(entryPoints) = 0 THEN NoPath ELSE FindPath(ds, entryPoints[1], filePath)

\* DeadCodeDetector.getReachabilityPath
GetReachabilityPath(ds, filePath) == FirstPath(ds, QueryEntryPoints(ds), 1, filePath)

\* DeadCodeDetector._findUnusedExports
RECURSIVE FindUnusedExports(_, _, _)
FindUnusedExports(ds, allFiles, i) ==
  IF i > Len(allFiles) THEN <<>>
  ELSE LET exports == QueryExports(ds, allFiles[i])
           unused  == SelectSeq(exports,
                                LAMBDA name : ~IsExportUsed(ds, allFiles[i], name))
       IN  [j \in 1..Len(unused) |-> [file |-> allFiles[i], exportName |-> unused[j]]]
           \o FindUnusedExports(ds, allFiles, i + 1)

\* detect() when there is no entry point
EmptyResult ==
  [returned |-> TRUE, deadFiles |-> <<>>, deadExports |-> <<>>, reachableFiles |-> <<>>,
   stats |-> [totalFiles |-> 0, reachableFiles |-> 0, deadFiles |-> 0,
              reachabilityPercentage |-> 0]]

\* detect(), phase 4
DetectStats(totalLen, reachableLen, deadLen, unusedLen) ==
  [totalFiles |-> totalLen, reachableFiles |-> reachableLen, deadFiles |-> deadLen,
   unusedExports |-> unusedLen,
   reachabilityPercentage |-> ReachabilityPercentage(reachableLen, totalLen)]

\* a detect() that empties this.reachable, and not this.visited, before it
\* traverses
DetectResetReachable(ds, det) ==
  LET entryPoints == QueryEntryPoints(ds)
  IN  IF Len(entryPoints) = 0
      THEN [det |-> det, result |-> EmptyResult]
      ELSE LET st             == TraverseAll(ds, entryPoints, 1,
                                             [det EXCEPT !.reachable = {}])
               allFiles       == QueryNodesByType(ds, "file")
               reachableFiles == SelectSeq(allFiles, LAMBDA f : f \in st.reachable)
               deadFiles      == SelectSeq(allFiles, LAMBDA f : f \notin st.reachable)
               deadExports    == FindUnusedExports(ds, allFiles, 1)
           IN  [det |-> st,
                result |-> [returned |-> TRUE, deadFiles |-> deadFiles,
                            deadExports |-> deadExports,
                            reachableFiles |-> reachableFiles,
                            stats |-> DetectStats(Len(allFiles), Len(reachableFiles),
                                                  Len(deadFiles), Len(deadExports))]]

\* DeadCodeDetector.detect: the detector's sets after the call and the result
Detect(ds, det) ==
  LET entryPoints == QueryEntryPoints(ds)
  IN  IF Len(entryPoints) = 0
      THEN [det |-> det, result |-> EmptyResult]
      ELSE LET st             == TraverseAll(ds, entryPoints, 1, det)
               allFiles       == QueryNodesByType(ds, "file")
               reachableFiles == SelectSeq(allFiles, LAMBDA f : f \in st.reachable)
               deadFiles      == SelectSeq(allFiles, LAMBDA f : f \notin st.reachable)
               deadExports    == FindUnusedExports(ds, allFiles, 1)
           IN  [det |-> st,
                result |-> [returned |-> TRUE, deadFiles |-> deadFiles,
                            deadExports |-> deadExports,
                            reachableFiles |-> reachableFiles,
                            stats |-> DetectStats(Len(allFiles), Len(reachableFiles),
                                                  Len(deadFiles), Len(deadExports))]]

\* DeadCodeDetector.isFileDead: detect() runs only while this.reachable is
\* empty; the answer is read from this.reachable
IsFileDead(ds, det, filePath) ==
  LET d == IF det.reachable = {} THEN Detect(ds, det).det ELSE det
  IN  [det |-> d, dead |-> filePath \notin d.reachable]

(***************************************************************************)
(* DuplicateDetector.  A name is the sequence of its characters.           *)
(***************************************************************************)
\* an option the caller gave
Given(v) == [k |-> "given", v |-> v]

\* the value of an option after the constructor: the default when the key is
\* absent; a key that is present is spread over the default
OptionOr(option, default) == IF option.k = "none" THEN default ELSE option.v

\* DuplicateDetector constructor, this.options; similarityThreshold is a
\* fraction [num, den]
DuplicateOptions(options) ==
  [threshold           |-> OptionOr(options.threshold, 2),
   ignoreCommon        |-> OptionOr(options.ignoreCommon, TRUE),
   includeSimilar      |-> OptionOr(options.includeSimilar, FALSE),
   similarityThreshold |-> OptionOr(options.similarityThreshold, [num |-> 8, den |-> 10])]

\* DuplicateDetector constructor, this.commonNames
CommonNames ==
  { <<"c","o","n","s","t","r","u","c","t","o","r">>, <<"r","e","n","d","e","r">>,
    <<"i","n","i","t">>, <<"i","n","i","t","i","a","l","i","z","e">>,
    <<"s","e","t","u","p">>, <<"d","e","s","t","r","o","y">>,
    <<"t","o","S","t","r","i","n","g">>, <<"v","a","l","u","e","O","f">>,
    <<"g","e","t">>, <<"s","e","t">>, <<"u","p","d","a","t","e">>,
    <<"c","r","e","a","t","e">>, <<"d","e","l","e","t","e">>,
    <<"h","a","n","d","l","e">>, <<"p","r","o","c","e","s","s">>,
    <<"e","x","e","c","u","t","e">> }

\* String.prototype.toLowerCase, for the capitals the names of the runs hold
ToLowerCase(str) ==
  [i \in 1..Len(str) |->
     CASE str[i] = "B" -> "b" [] str[i] = "F" -> "f" [] str[i] = "G" -> "g"
       [] str[i] = "O" -> "o" [] str[i] = "S" -> "s" [] OTHER -> str[i]]

\* DuplicateDetector._extractBareName: the part after the last '.'
ExtractBareName(fullName) ==
  LET dots == {i \in 1..Len(fullName) : fullName[i] = "."}
  IN  IF dots = {} THEN fullName
      ELSE SubSeq(fullName, (CHOOSE i \in dots : \A j \in dots : j <= i) + 1,
                  Len(fullName))

\* detect(), "Group functions by name", the functionInfo of one Function node,
\* or Null when the node is skipped; a property the graph does not hold is Null
FunctionInfo(ds, id, options) ==
  LET metadata == GetNodeMetadata(ds, id).props
      Prop(name) == IF name \in DOMAIN metadata THEN metadata[name] ELSE Null
      fullName == IF Prop("label") # Null THEN Prop("label") ELSE Prop("name")
      bareName == ExtractBareName(fullName)
  IN  IF fullName = Null THEN Null
      ELSE IF options.ignoreCommon /\ ToLowerCase(bareName) \in CommonNames THEN Null
      ELSE [id |-> id, fullName |-> fullName, bareName |-> bareName,
            file |-> Prop("file"), line |-> Prop("line"),
            className |-> Prop("className"), methodName |-> Prop("methodName")]

\* bareNameGroups after one more functionInfo: a Map keeps its keys in the
\* order they were first set
PushInfo(groups, info) ==
  IF \E g \in 1..Len(groups) : groups[g].name = info.bareName
  THEN [g \in 1..Len(groups) |->
          IF groups[g].name = info.bareName
          THEN [groups[g] EXCEPT !.occurrences = Append(@, info)]
          ELSE groups[g]]
  ELSE Append(groups, [name |-> info.bareName, occurrences |-> <<info>>])

\* detect(), "Group functions by name"
RECURSIVE BareNameGroups(_, _, _, _)
BareNameGroups(ds, functions, i, options) ==
  IF i = 0 THEN <<>>
  ELSE LET groups == BareNameGroups(ds, functions, i - 1, options)
           info   == FunctionInfo(ds, functions[i], options)
       IN  IF info = Null THEN groups ELSE PushInfo(groups, info)

\* DuplicateDetector._categorize
Categorize(occurrences) ==
  LET classes == {occurrences[i].className : i \in 1..Len(occurrences)} \ {Null}
      inFiles == {occurrences[i].file : i \in 1..Len(occurrences)} \ {Null}
      hasRegularFunctions == \E i \in 1..Len(occurrences) : occurrences[i].className = Null
      hasMethods == \E i \in 1..Len(occurrences) : occurrences[i].className # Null
  IN  IF Cardinality(classes) = 1 /\ Len(occurrences) > 1 /\ ~hasRegularFunctions
      THEN "same-class-overload"
      ELSE IF Cardinality(classes) > 1 /\ ~hasRegularFunctions THEN "cross-class"
      ELSE IF Cardinality(inFiles) > 1 /\ hasRegularFunctions /\ ~hasMethods
      THEN "cross-file"
      ELSE IF Cardinality(inFiles) = 1 /\ ~hasMethods /\ ~hasRegularFunctions
      THEN "same-file"
      ELSE IF Cardinality(inFiles) = 1 /\ hasRegularFunctions /\ ~hasMethods
      THEN "same-file"
      ELSE "mixed"

\* the comparator of _sortOccurrences: a is put after b when its file sorts
\* after b's, or the files are the same and its line is larger; an absent
\* file counts as '' and an absent line as 0
SortsAfter(a, b) ==
  LET FileRank(f) == IF f = Null THEN 0 ELSE IF f = FullPath("a") THEN 1 ELSE 2
      LineOf(l) == IF l = Null THEN 0 ELSE l
  IN  IF a.file # b.file THEN FileRank(a.file) > FileRank(b.file)
      ELSE LineOf(a.line) > LineOf(b.line)

\* _sortOccurrences: Array.prototype.sort is stable, an occurrence is put
\* after every one that does not sort after it
RECURSIVE InsertOccurrence(_, _)
InsertOccurrence(sorted, x) ==
  IF sorted = <<>> THEN <<x>>
  ELSE IF SortsAfter(Head(sorted), x) THEN <<x>> \o sorted
       ELSE <<Head(sorted)>> \o InsertOccurrence(Tail(sorted), x)

\* DuplicateDetector._sortOccurrences
RECURSIVE SortOccurrences(_)
SortOccurrences(occurrences) ==
  IF occurrences = <<>> THEN <<>>
  ELSE InsertOccurrence(SortOccurrences(SubSeq(occurrences, 1, Len(occurrences) - 1)),
                        occurrences[Len(occurrences)])

\* duplicates.sort((a, b) => b.count - a.count), one insertion
RECURSIVE InsertByCount(_, _)
InsertByCount(sorted, x) ==
  IF sorted = <<>> THEN <<x>>
  ELSE IF Head(sorted).count < x.count THEN <<x>> \o sorted
       ELSE <<Head(sorted)>> \o InsertByCount(Tail(sorted), x)

\* duplicates.sort((a, b) => b.count - a.count)
RECURSIVE SortByCount(_)
SortByCount(entries) ==
  IF entries = <<>> THEN <<>>
  ELSE InsertByCount(SortByCount(SubSeq(entries, 1, Len(entries) - 1)),
                     entries[Len(entries)])

\* detect(), "Find duplicates": the groups of at least threshold occurrences,
\* then "Sort by count descending"
Duplicates(groups, options) ==
  LET reported == SelectSeq(groups, LAMBDA g : Len(g.occurrences) >= options.threshold)
  IN  SortByCount([i \in 1..Len(reported) |->
                     [name        |-> reported[i].name,
                      count       |-> Len(reported[i].occurrences),
                      occurrences |-> SortOccurrences(reported[i].occurrences),
                      category    |-> Categorize(reported[i].occurrences)]])

\* the difference of the lengths of two names
LengthDifference(str1, str2) ==
  IF Len(str1) > Len(str2) THEN Len(str1) - Len(str2) ELSE Len(str2) - Len(str1)

\* DuplicateDetector._levenshteinDistance, the row of str2's i-th character:
\* row holds matrix[i][0..j-1] and prev holds matrix[i-1]; index 1 is column 0
RECURSIVE LevenshteinRow(_, _, _, _)
LevenshteinRow(prev, row, str1, ch) ==
  LET j == Len(row)
  IN  IF j > Len(str1) THEN row
      ELSE LET Min(a, b) == IF a < b THEN a ELSE b
               cell == IF ch = str1[j] THEN prev[j]
                       ELSE Min(prev[j] + 1, Min(row[j] + 1, prev[j + 1] + 1))
           IN  LevenshteinRow(prev, Append(row, cell), str1, ch)
RECURSIVE LevenshteinMatrixRow(_, _, _)
LevenshteinMatrixRow(str1, str2, i) ==
  IF i = 0 THEN [j \in 1..(Len(str1) + 1) |-> j - 1]
  ELSE LevenshteinRow(LevenshteinMatrixRow(str1, str2, i - 1), <<i>>, str1, str2[i])
LevenshteinDistance(str1, str2) ==
  LevenshteinMatrixRow(str1, str2, Len(str2))[Len(str1) + 1]

\* DuplicateDetector._calculateSimilarity, as the fraction
\* (longer.length - distance) / longer.length
CalculateSimilarity(str1, str2) ==
  LET longer  == IF Len(str1) > Len(str2) THEN str1 ELSE str2
      shorter == IF Len(str1) > Len(str2) THEN str2 ELSE str1
  IN  IF Len(longer) = 0 THEN [num |-> 1, den |-> 1]
      ELSE [num |-> Len(longer) - LevenshteinDistance(longer, shorter),
            den |-> Len(longer)]

\* a >= b and a < 1 for fractions with positive denominators
FractionAtLeast(a, b) == a.num * b.den >= b.num * a.den
FractionBelowOne(a) == a.num < a.den

\* similarity.toFixed(2): the decimal text with two digits after the point,
\* given as its number of hundredths ("0.89" is 89, "1.00" is 100)
ToFixed2(a) == (200 * a.num + a.den) \div (2 * a.den)

\* DuplicateDetector._findSimilarNames, the inner loop over j
RECURSIVE SimilarTo(_, _, _, _)
SimilarTo(groups, i, j, options) ==
  IF j > Len(groups) THEN <<>>
  ELSE LET similarity == CalculateSimilarity(groups[i].name, groups[j].name)
           rest == SimilarTo(groups, i, j + 1, options)
       IN  IF FractionAtLeast(similarity, options.similarityThreshold)
              /\ FractionBelowOne(similarity)
           THEN <<[names |-> <<groups[i].name, groups[j].name>>,
                   similarity |-> ToFixed2(similarity),
                   occurrences |-> groups[i].occurrences \o groups[j].occurrences]>>
                \o rest
           ELSE rest

\* DuplicateDetector._findSimilarNames, the outer loop over i
RECURSIVE FindSimilarNames(_, _, _)
FindSimilarNames(groups, i, options) ==
  IF i > Len(groups) THEN <<>>
  ELSE SimilarTo(groups, i, i + 1, options) \o FindSimilarNames(groups, i + 1, options)

\* the sum of the counts of the reported groups
RECURSIVE SumCounts(_)
SumCounts(duplicates) ==
  IF duplicates = <<>> THEN 0 ELSE Head(duplicates).count + SumCounts(Tail(duplicates))

\* DuplicateDetector._calculateRedundancyScore, as a fraction
CalculateRedundancyScore(duplicates, totalFunctions) ==
  IF totalFunctions = 0 THEN [num |-> 0, den |-> 1]
  ELSE LET duplicateCount == SumCounts(duplicates)
           crossClassDuplicates ==
             Len(SelectSeq(duplicates, LAMBDA d : d.category = "cross-class"))
           weighted == [num |-> duplicateCount + crossClassDuplicates * 2,
                        den |-> totalFunctions * 2]
       IN  IF weighted.num < weighted.den THEN weighted ELSE [num |-> 1, den |-> 1]

\* DuplicateDetector.detect
DuplicateDetect(ds, options) ==
  LET functions     == QueryNodesByType(ds, "function")
      groups        == BareNameGroups(ds, functions, Len(functions), options)
      duplicates    == Duplicates(groups, options)
      similarGroups == IF options.includeSimilar THEN FindSimilarNames(groups, 1, options)
                       ELSE <<>>
  IN  [duplicates    |-> duplicates,
       similarGroups |-> similarGroups,
       stats |-> [totalFunctions  |-> Len(functions),
                  uniqueNames     |-> Len(groups),
                  duplicateGroups |-> Len(duplicates),
                  totalDuplicates |-> SumCounts(duplicates),
                  similarGroups   |-> Len(similarGroups),
                  redundancyScore |-> CalculateRedundancyScore(duplicates,
                                                               Len(functions))]]

(***************************************************************************)
(* Specification of a build followed by dead-code detection.               *)
(***************************************************************************)
NoCounts == [total |-> 0, reachable |-> 0]

Idle ==
  /\ input = NoInput
  /\ cache = EmptyCache
  /\ files = <<>>
  /\ parsedFiles = <<>>
  /\ registered = 0
  /\ dataset = <<>>
  /\ markLog = NoLog
  /\ detector = NoDetector
  /\ result = NoResult
  /\ detects = 0
  /\ calls = 0
  /\ logger = NoLogger

\* new GraphBuilder(config), over a tree that holds the first k files
Init ==
  /\ config \in {[entryPoints |-> e] : e \in Configs}
  /\ disk \in {SubSeq(Stems, 1, k) : k \in 0..Len(Stems)}
  /\ pc = "start"
  /\ counts = NoCounts
  /\ Idle

\* buildGraph, phase 1: FileScanner.scan returns the files of the tree
ScanFiles ==
  /\ pc = "start"
  /\ pc' = "build"
  /\ files' = [i \in 1..Len(disk) |-> FileInfo(disk[i])]
  /\ UNCHANGED <<logger, input, cache, config, disk, parsedFiles, registered, dataset, markLog, detector,
                 result, detects, calls, counts>>

\* buildGraph, phase 1: FileScanner.scan rethrows a readdir error
ScanFails ==
  /\ pc = "start"
  /\ pc' = "failed"
  /\ UNCHANGED <<logger, input, cache, config, disk, files, parsedFiles, registered, dataset, markLog,
                 detector, result, detects, calls, counts>>

RECURSIVE ImportsParsed(_, _)
ImportsParsed(parsed, i) ==
  IF i > Len(parsed) THEN 0
  ELSE Len(parsed[i].dependencies.imports) + ImportsParsed(parsed, i + 1)

RECURSIVE ExportsParsed(_, _)
ExportsParsed(parsed, i) ==
  IF i > Len(parsed) THEN 0
  ELSE Len(parsed[i].dependencies.exports) + ExportsParsed(parsed, i + 1)

\* buildGraph, phase 2, one iteration: parseFile of the next file returns
\* its facts, or the error record when the file cannot be read or parsed
ParseNext ==
  /\ pc = "build"
  /\ Len(parsedFiles) < Len(files)
  /\ LET file == files[Len(parsedFiles) + 1]
         left == MaxFacts - ImportsParsed(parsedFiles, 1) - ExportsParsed(parsedFiles, 1)
     IN  \E deps \in {ParseFailure} \cup
                     {d \in {ExtractDependencies(specs, exps, file.path) :
                               specs \in UNION {[1..k -> Specifiers] : k \in 0..left},
                               exps \in ExportLists} :
                        Len(d.imports) + Len(d.exports) <= left} :
           /\ parsedFiles' = Append(parsedFiles, [file |-> file, dependencies |-> deps])
           /\ cache' = CacheAfter(cache, file.path, deps)
  /\ UNCHANGED <<logger, input, config, disk, pc, files, registered, dataset, markLog, detector,
                 result, detects, calls, counts>>

\* buildGraph, phase 3, "Add all files as nodes", one iteration
RegisterNext ==
  /\ pc = "build"
  /\ Len(parsedFiles) = Len(files)
  /\ registered < Len(parsedFiles)
  /\ dataset' = RegisterFile(dataset, parsedFiles[registered + 1])
  /\ registered' = registered + 1
  /\ UNCHANGED <<logger, input, cache, config, disk, pc, files, parsedFiles, markLog, detector, result,
                 detects, calls, counts>>

\* buildGraph, phase 3, "Add all dependencies as edges"
AddEdges ==
  /\ pc = "build"
  /\ Len(parsedFiles) = Len(files)
  /\ registered = Len(parsedFiles)
  /\ dataset' = AddDependencies(dataset, parsedFiles, 1,
                                {files[i].path : i \in 1..Len(files)})
  /\ pc' = "mark"
  /\ UNCHANGED <<logger, input, cache, config, disk, files, parsedFiles, registered, markLog, detector,
                 result, detects, calls, counts>>

\* buildGraph, phase 4: _markEntryPoints; package.json is read only when no
\* entry point is configured
MarkEntryPointsStep ==
  /\ pc = "mark"
  /\ \E packageJson \in (IF Len(config.entryPoints) = 0 THEN Manifests
                         ELSE {Unreadable}) :
       LET m == MarkEntryPoints(dataset, config.entryPoints, packageJson)
       IN  /\ dataset' = m.ds
           /\ markLog' = [m.log EXCEPT !.manifest = packageJson]
  /\ pc' = "done"
  /\ UNCHANGED <<logger, input, cache, config, disk, files, parsedFiles, registered, detector, result,
                 detects, calls, counts>>

\* the dead-code command after the build: new DeadCodeDetector(getGraph())
\* followed by detector.detect()
Analyze ==
  /\ pc = "done"
  /\ LET d == Detect(dataset, [made |-> TRUE, visited |-> {}, reachable |-> {}])
     IN  /\ detector' = d.det
         /\ result' = d.result
  /\ detects' = detects + 1
  /\ pc' = "analyzed"
  /\ UNCHANGED <<logger, input, cache, config, disk, files, parsedFiles, registered, dataset, markLog,
                 calls, counts>>

Next ==
  \/ ScanFiles
  \/ ScanFails
  \/ ParseNext
  \/ RegisterNext
  \/ AddEdges
  \/ MarkEntryPointsStep
  \/ Analyze

Spec == Init /\ [][Next]_vars

(***************************************************************************)
(* Specification of a client that fills an RDFModel through its methods    *)
(* and then runs the detector on it.                                       *)
(***************************************************************************)
ApiFiles == {FullPath("a"), FullPath("b")}
ApiModules == {<<"pkg">>}

InitApi ==
  /\ config = [entryPoints |-> <<>>]
  /\ disk = <<>>
  /\ pc = "api"
  /\ counts = NoCounts
  /\ Idle

ApiCall(ds) ==
  /\ pc = "api"
  /\ ~detector.made
  /\ calls < MaxApiCalls
  /\ dataset' = ds
  /\ calls' = calls + 1
  /\ UNCHANGED <<logger, input, cache, config, disk, pc, files, parsedFiles, registered, markLog, detector,
                 result, detects, counts>>

\* rdfModel.addFile(path)
ApiAddFile == \E f \in ApiFiles : ApiCall(AddFile(dataset, f, NoMeta))

\* rdfModel.addModule(name, true)
ApiAddModule == \E m \in ApiModules : ApiCall(AddModule(dataset, m, TRUE))

\* rdfModel.addImport(from, to)
ApiAddImport ==
  \E f \in ApiFiles, t \in ApiFiles \cup ApiModules :
    ApiCall(AddImport(dataset, f, t, [line |-> Null, type |-> Null]))

\* rdfModel.markAsEntryPoint(path)
ApiMarkAsEntryPoint == \E f \in ApiFiles : ApiCall(MarkAsEntryPoint(dataset, f))

\* new DeadCodeDetector(rdfModel)
NewDetector ==
  /\ pc = "api"
  /\ ~detector.made
  /\ detector' = [made |-> TRUE, visited |-> {}, reachable |-> {}]
  /\ UNCHANGED <<logger, input, cache, config, disk, pc, files, parsedFiles, registered, dataset, markLog,
                 result, detects, calls, counts>>

\* detector.detect()
DetectCall ==
  /\ pc = "api"
  /\ detector.made
  /\ detects < MaxDetect
  /\ LET d == Detect(dataset, detector)
     IN  /\ detector' = d.det
         /\ result' = d.result
  /\ detects' = detects + 1
  /\ UNCHANGED <<logger, input, cache, config, disk, pc, files, parsedFiles, registered, dataset, markLog,
                 calls, counts>>

NextApi ==
  \/ ApiAddFile
  \/ ApiAddModule
  \/ ApiAddImport
  \/ ApiMarkAsEntryPoint
  \/ NewDetector
  \/ DetectCall

SpecApi == InitApi /\ [][NextApi]_vars

(***************************************************************************)
(* Specification of detect()'s statistics as a function of the lengths of  *)
(* allFiles and reachableFiles.                                            *)
(***************************************************************************)
InitStats ==
  /\ config = [entryPoints |-> <<>>]
  /\ disk = <<>>
  /\ pc = "stats"
  /\ counts \in {[total |-> n, reachable |-> r] : n \in 0..MaxTotal, r \in 0..MaxTotal}
  /\ counts.reachable <= counts.total
  /\ Idle

\* detect(), phase 4, for the given lengths
ComputeStats ==
  /\ pc = "stats"
  /\ ~result.returned
  /\ result' = [returned |-> TRUE,
                stats |-> DetectStats(counts.total, counts.reachable,
                                      counts.total - counts.reachable, 0)]
  /\ UNCHANGED <<logger, input, cache, config, disk, pc, files, parsedFiles, registered, dataset, markLog,
                 detector, detects, calls, counts>>

NextStats == ComputeStats

SpecStats == InitStats /\ [][NextStats]_vars

(***************************************************************************)
(* Specification of a client that registers files again and again and     *)
(* reads their metadata.                                                   *)
(***************************************************************************)
\* the size a registration gives: none, or one of two numbers
Sizes == {Null, <<"10">>, <<"20">>}

InitMeta ==
  /\ config = [entryPoints |-> <<>>]
  /\ disk = <<>>
  /\ pc = "meta"
  /\ counts = NoCounts
  /\ Idle

\* rdfModel.addFile(path, { size }); input keeps the arguments of the calls
MetaAddFile ==
  /\ pc = "meta"
  /\ calls < MaxApiCalls
  /\ \E f \in ApiFiles, size \in Sizes :
       /\ dataset' = AddFile(dataset, f, [NoMeta EXCEPT !.size = size])
       /\ input' = Append(input, [id |-> f, size |-> size])
  /\ calls' = calls + 1
  /\ UNCHANGED <<logger, cache, config, disk, pc, files, parsedFiles, registered, markLog,
                 detector, result, detects, counts>>

\* rdfModel.getNodeMetadata(path)
MetaGetNodeMetadata ==
  /\ pc = "meta"
  /\ \E f \in ApiFiles :
       result' = [returned |-> TRUE, of |-> f, at |-> calls,
                  metadata |-> GetNodeMetadata(dataset, f)]
  /\ UNCHANGED <<logger, input, cache, config, disk, pc, files, parsedFiles, registered, dataset,
                 markLog, detector, detects, calls, counts>>

NextMeta == MetaAddFile \/ MetaGetNodeMetadata

SpecMeta == InitMeta /\ [][NextMeta]_vars

(***************************************************************************)
(* Specification of a client of one DependencyParser.                      *)
(***************************************************************************)
\* the facts a grammar may find in a file: none, or one import
SourceFacts(filePath) ==
  {ExtractDependencies(specs, <<>>, filePath) : specs \in {<<>>, << <<"./", "b">> >>}}

\* what parse() may make of a file under one grammar
GrammarOutcomes(filePath, grammar) ==
  {Rejected(<<"SyntaxError", grammar>>)} \cup {Parsed(d) : d \in SourceFacts(filePath)}

\* the file behind a path at the time of a call: unreadable, or a text with
\* its outcome under each grammar
FileStates(filePath) ==
  {[readable |-> FALSE, source |-> Null]} \cup
  {[readable |-> TRUE, source |-> [module |-> m, script |-> sc]] :
     m \in GrammarOutcomes(filePath, "module"),
     sc \in GrammarOutcomes(filePath, "script")}

\* new DependencyParser(config)
InitParse ==
  /\ config = [entryPoints |-> <<>>]
  /\ disk = <<>>
  /\ pc = "parse"
  /\ counts = NoCounts
  /\ Idle

\* await parser.parseFile(path); input keeps the path and the file the call met
ParseFileCall ==
  /\ pc = "parse"
  /\ calls < MaxApiCalls
  /\ \E f \in ApiFiles : \E file \in FileStates(f) :
       LET r == ParseFile(cache, f, file)
       IN  /\ cache' = r.cache
           /\ result' = [returned |-> TRUE, outcome |-> r.outcome,
                         hit |-> f \in DOMAIN cache]
           /\ input' = <<[path |-> f, file |-> file]>>
  /\ calls' = calls + 1
  /\ UNCHANGED <<logger, config, disk, pc, files, parsedFiles, registered, dataset, markLog,
                 detector, detects, counts>>

NextParse == ParseFileCall

SpecParse == InitParse /\ [][NextParse]_vars

(***************************************************************************)
(* Specification of a client that calls buildGraph on one GraphBuilder     *)
(* more than once, each call awaited before the next.                      *)
(***************************************************************************)
\* the trees a build may find under rootDir
RebuildTrees == {<<>>, <<"a">>, <<"a", "b">>}

\* buildGraph, phase 2 as a whole: parseFile of every scanned file, through
\* the cache of the builder's parser
RECURSIVE ParseAll(_, _, _, _)
ParseAll(c, scanned, states, i) ==
  IF i > Len(scanned) THEN [parsed |-> <<>>, cache |-> c]
  ELSE LET r    == ParseFile(c, scanned[i].path, states[i])
           rest == ParseAll(r.cache, scanned, states, i + 1)
       IN  [parsed |-> <<[file |-> scanned[i], dependencies |-> r.outcome.value]>>
                         \o rest.parsed,
            cache  |-> rest.cache]

\* buildGraph, "Add all files as nodes" as a whole
RECURSIVE RegisterAll(_, _, _)
RegisterAll(ds, parsed, i) ==
  IF i > Len(parsed) THEN ds
  ELSE RegisterAll(RegisterFile(ds, parsed[i]), parsed, i + 1)

\* buildGraph, phases 3 and 4, on the dataset of this.rdfModel
BuildGraph(ds, parsed, entryPoints, packageJson) ==
  LET scannedFiles == {parsed[i].file.path : i \in 1..Len(parsed)}
      d1 == RegisterAll(ds, parsed, 1)
      d2 == AddDependencies(d1, parsed, 1, scannedFiles)
  IN  MarkEntryPoints(d2, entryPoints, packageJson)

\* new GraphBuilder(config)
InitRebuild ==
  /\ config = [entryPoints |-> <<>>]
  /\ disk = <<>>
  /\ pc = "rebuild"
  /\ counts = NoCounts
  /\ Idle

\* await builder.buildGraph(rootDir), for the tree rootDir holds at the time:
\* the scan and parsedFiles start empty, this.rdfModel and the parser cache
\* are the ones the constructor made
BuildGraphCall ==
  /\ pc = "rebuild"
  /\ calls < MaxBuilds
  /\ \E tree \in RebuildTrees :
       \E states \in [1..Len(tree) -> UNION {FileStates(FullPath(st)) : st \in Range(tree)}] :
         \E packageJson \in {Unreadable, PackageJson(<<"a", ".js">>, Absent, Absent)} :
           /\ \A i \in 1..Len(tree) : states[i] \in FileStates(FullPath(tree[i]))
           /\ LET scanned == [i \in 1..Len(tree) |-> FileInfo(tree[i])]
                  p == ParseAll(cache, scanned, states, 1)
                  m == BuildGraph(dataset, p.parsed, config.entryPoints, packageJson)
              IN  /\ disk' = tree
                  /\ files' = scanned
                  /\ parsedFiles' = p.parsed
                  /\ cache' = p.cache
                  /\ registered' = Len(p.parsed)
                  /\ dataset' = m.ds
                  /\ markLog' = [m.log EXCEPT !.manifest = packageJson]
  /\ calls' = calls + 1
  /\ UNCHANGED <<logger, input, config, pc, detector, result, detects, counts>>

NextRebuild == BuildGraphCall

SpecRebuild == InitRebuild /\ [][NextRebuild]_vars

(***************************************************************************)
(* Specification of a client that builds a graph of imports and entry      *)
(* points and asks a DeadCodeDetector for reachability paths.              *)
(***************************************************************************)
InitPath ==
  /\ config = [entryPoints |-> <<>>]
  /\ disk = <<>>
  /\ pc = "path"
  /\ counts = NoCounts
  /\ Idle

PathCall(ds) ==
  /\ pc = "path"
  /\ calls < MaxApiCalls
  /\ dataset' = ds
  /\ calls' = calls + 1
  /\ UNCHANGED <<logger, input, cache, config, disk, pc, files, parsedFiles, registered, markLog,
                 detector, result, detects, counts>>

\* rdfModel.addImport(from, to)
PathAddImport ==
  \E f \in ApiFiles, t \in ApiFiles \cup ApiModules :
    PathCall(AddImport(dataset, f, t, [line |-> Null, type |-> Null]))

\* rdfModel.markAsEntryPoint(path)
PathMarkAsEntryPoint == \E f \in ApiFiles : PathCall(MarkAsEntryPoint(dataset, f))

\* new DeadCodeDetector(rdfModel).getReachabilityPath(target)
PathQuery ==
  /\ pc = "path"
  /\ \E t \in ApiFiles \cup ApiModules :
       result' = [returned |-> TRUE, target |-> t, at |-> calls,
                  path |-> GetReachabilityPath(dataset, t)]
  /\ UNCHANGED <<logger, input, cache, config, disk, pc, files, parsedFiles, registered, dataset,
                 markLog, detector, detects, calls, counts>>

NextPath == PathAddImport \/ PathMarkAsEntryPoint \/ PathQuery

SpecPath == InitPath /\ [][NextPath]_vars

(***************************************************************************)
(* Specification of a client that keeps one DeadCodeDetector while it      *)
(* goes on changing the graph.                                             *)
(***************************************************************************)
\* new RDFModel(), new DeadCodeDetector(rdfModel)
InitDetector ==
  /\ config = [entryPoints |-> <<>>]
  /\ disk = <<>>
  /\ pc = "det"
  /\ counts = NoCounts
  /\ input = NoInput
  /\ cache = EmptyCache
  /\ files = <<>>
  /\ parsedFiles = <<>>
  /\ registered = 0
  /\ dataset = <<>>
  /\ markLog = NoLog
  /\ detector = [made |-> TRUE, visited |-> {}, reachable |-> {}]
  /\ result = NoResult
  /\ detects = 0
  /\ calls = 0
  /\ logger = NoLogger

DetGraphCall(ds) ==
  /\ pc = "det"
  /\ calls < MaxApiCalls
  /\ dataset' = ds
  /\ calls' = calls + 1
  /\ UNCHANGED <<logger, input, cache, config, disk, pc, files, parsedFiles, registered, markLog,
                 detector, result, detects, counts>>

\* rdfModel.addFile(path)
DetAddFile == \E f \in ApiFiles : DetGraphCall(AddFile(dataset, f, NoMeta))

\* rdfModel.addImport(from, to)
DetAddImport ==
  \E f \in ApiFiles, t \in ApiFiles :
    DetGraphCall(AddImport(dataset, f, t, [line |-> Null, type |-> Null]))

\* rdfModel.markAsEntryPoint(path)
DetMarkAsEntryPoint == \E f \in ApiFiles : DetGraphCall(MarkAsEntryPoint(dataset, f))

\* detector.detect(); at is the number of graph calls made before it, repeat
\* tells that the call before was a detect() on the same graph
DetDetect ==
  /\ pc = "det"
  /\ detects < MaxDetect
  /\ LET d == Detect(dataset, detector)
     IN  /\ detector' = d.det
         /\ result' = [returned |-> TRUE, at |-> calls, call |-> "detect",
                       repeat |-> (result.returned /\ result.call = "detect"
                                   /\ result.at = calls),
                       value |-> d.result]
  /\ detects' = detects + 1
  /\ UNCHANGED <<logger, input, cache, config, disk, pc, files, parsedFiles, registered, dataset,
                 markLog, calls, counts>>

\* detector.isFileDead(path)
DetIsFileDead ==
  /\ pc = "det"
  /\ detects < MaxDetect
  /\ \E f \in ApiFiles :
       LET d == IsFileDead(dataset, detector, f)
       IN  /\ detector' = d.det
           /\ result' = [returned |-> TRUE, at |-> calls, call |-> "isFileDead",
                         repeat |-> FALSE,
                         value |-> [of |-> f, dead |-> d.dead]]
  /\ detects' = detects + 1
  /\ UNCHANGED <<logger, input, cache, config, disk, pc, files, parsedFiles, registered, dataset,
                 markLog, calls, counts>>

NextDetector ==
  \/ DetAddFile
  \/ DetAddImport
  \/ DetMarkAsEntryPoint
  \/ DetDetect
  \/ DetIsFileDead

SpecDetector == InitDetector /\ [][NextDetector]_vars

(***************************************************************************)
(* Specification of a client that registers functions and methods and     *)
(* runs a DuplicateDetector on the graph.                                  *)
(***************************************************************************)
\* the names of the runs
FooValidate == <<"F","o","o",".","v","a","l","i","d","a","t","e">>
BarValidate == <<"B","a","r",".","v","a","l","i","d","a","t","e">>
Validate == <<"v","a","l","i","d","a","t","e">>
Validated == <<"v","a","l","i","d","a","t","e","d">>
ToStringName == <<"t","o","S","t","r","i","n","g">>
GetName == <<"g","e","t">>
SetName == <<"s","e","t">>

\* a function record of extractDependencies: a function declaration, or a
\* method of a class
FunctionRecord(file, name) ==
  [file |-> file, name |-> name, className |-> Null, methodName |-> Null]
MethodRecord(file, className, methodName) ==
  [file |-> file, name |-> className \o <<".">> \o methodName,
   className |-> className, methodName |-> methodName]

\* the functions and methods a client may register
DupFunctions ==
  { MethodRecord(FullPath("a"), <<"F","o","o">>, Validate),
    MethodRecord(FullPath("b"), <<"B","a","r">>, Validate),
    FunctionRecord(FullPath("a"), Validated),
    FunctionRecord(FullPath("a"), ToStringName),
    FunctionRecord(FullPath("b"), ToStringName),
    FunctionRecord(FullPath("a"), GetName),
    FunctionRecord(FullPath("b"), SetName) }

\* the options a DuplicateDetector may be constructed with
DupOptionSets ==
  { [threshold |-> t, ignoreCommon |-> c, includeSimilar |-> s[1],
     similarityThreshold |-> s[2]] :
      t \in {Absent, Given(1)},
      c \in {Absent, Given(FALSE)},
      s \in { <<Absent, Absent>>, <<Given(TRUE), Absent>>,
              <<Given(TRUE), Given([num |-> 6, den |-> 10])>> } }

\* the id buildGraph gives a function: `${file.path}#${func.name}`
FunctionId(func) == func.file \o <<"#">> \o func.name

\* new RDFModel(); config holds the options the detector will be given
InitDup ==
  /\ config \in DupOptionSets
  /\ disk = <<>>
  /\ pc = "dup"
  /\ counts = NoCounts
  /\ Idle

\* rdfModel.addFunction(id, { name, type, file, className, methodName, ... })
\* for a function not yet registered; input keeps the records given
DupAddFunction ==
  /\ pc = "dup"
  /\ calls < MaxApiCalls
  /\ \E func \in DupFunctions :
       /\ func \notin Range(input)
       /\ dataset' = AddFunction(dataset, FunctionId(func), func)
       /\ input' = Append(input, func)
  /\ calls' = calls + 1
  /\ UNCHANGED <<logger, cache, config, disk, pc, files, parsedFiles, registered, markLog,
                 detector, result, detects, counts>>

\* new DuplicateDetector(rdfModel, options).detect()
DupDetect ==
  /\ pc = "dup"
  /\ calls < MaxApiCalls
  /\ result' = [returned |-> TRUE, at |-> calls,
                value |-> DuplicateDetect(dataset, DuplicateOptions(config))]
  /\ calls' = calls + 1
  /\ UNCHANGED <<logger, input, cache, config, disk, pc, files, parsedFiles, registered, dataset,
                 markLog, detector, detects, counts>>

NextDup == DupAddFunction \/ DupDetect

SpecDup == InitDup /\ [][NextDup]_vars

(***************************************************************************)
(* Specification of a build over source files that hold export statements *)
(* of every form the parser's visitors handle.                             *)
(***************************************************************************)
\* the top-level statements of the source texts, as the tree nodes that
\* extractDependencies visits
Statement(type, specifiers, source, declaration, left) ==
  [type |-> type, specifiers |-> specifiers, source |-> source,
   declaration |-> declaration, left |-> left]

ExportStatements ==
  { Statement("ExportDefaultDeclaration", <<>>, Null, Null, Null),
    Statement("ExportNamedDeclaration", << <<"x">> >>, Null, Null, Null),
    Statement("ExportNamedDeclaration", << <<"x">>, <<"z">> >>, Null, Null, Null),
    Statement("ExportNamedDeclaration", <<>>, Null, <<"helper">>, Null),
    Statement("ExportNamedDeclaration", <<>>, Null, Null, Null),
    Statement("ExportAllDeclaration", <<>>, <<"./", "b", ".js">>, Null, Null),
    Statement("AssignmentExpression", <<>>, Null, Null, <<"module", "exports">>),
    Statement("AssignmentExpression", <<>>, Null, Null, <<"exports", "y">>) }

\* DependencyParser.extractExportSpecifiers
ExtractExportSpecifiers(node) == node.specifiers

\* the import records the visitors push for one statement
ImportsOfStatement(node, line) ==
  IF node.source # Null
  THEN << [type |-> <<"import">>, source |-> node.source, line |-> line] >>
  ELSE <<>>

\* the export records the visitors push for one statement
ExportsOfStatement(node, line) ==
  CASE node.type = "ExportNamedDeclaration" ->
         << [type |-> <<"named">>, specifiers |-> ExtractExportSpecifiers(node),
             property |-> Null, kind |-> Null, line |-> line] >>
    [] node.type = "ExportDefaultDeclaration" ->
         << [type |-> <<"default">>, specifiers |-> <<>>, property |-> Null,
             kind |-> Null, line |-> line] >>
    [] node.type = "ExportAllDeclaration" ->
         << [type |-> <<"all">>, specifiers |-> <<>>, property |-> Null,
             kind |-> Null, line |-> line] >>
    [] node.type = "AssignmentExpression" /\ node.left = <<"module", "exports">> ->
         << [type |-> <<"commonjs">>, specifiers |-> <<>>, property |-> Null,
             kind |-> <<"module.exports">>, line |-> line] >>
    [] node.type = "AssignmentExpression" /\ node.left[1] = "exports" ->
         << [type |-> <<"commonjs">>, specifiers |-> <<>>,
             property |-> <<node.left[2]>>, kind |-> <<"exports">>, line |-> line] >>
    [] OTHER -> <<>>

\* the function records the visitors push for one statement: the walk goes
\* into the declaration of an export statement
FunctionsOfStatement(node) ==
  IF node.declaration # Null THEN << [name |-> node.declaration] >> ELSE <<>>

\* DependencyParser.extractDependencies over the statements of a program,
\* the i-th statement standing on line i
RECURSIVE WalkAST(_, _)
WalkAST(program, i) ==
  IF i > Len(program) THEN [imports |-> <<>>, exports |-> <<>>, functions |-> <<>>]
  ELSE LET rest == WalkAST(program, i + 1)
           line == <<ToString(i)>>
       IN  [imports   |-> ImportsOfStatement(program[i], line) \o rest.imports,
            exports   |-> ExportsOfStatement(program[i], line) \o rest.exports,
            functions |-> FunctionsOfStatement(program[i]) \o rest.functions]

ExtractDependenciesOfProgram(program, filePath) ==
  LET found == WalkAST(program, 1)
  IN  [imports |-> [i \in 1..Len(found.imports) |->
                      [type |-> found.imports[i].type,
                       source |-> found.imports[i].source,
                       line |-> found.imports[i].line,
                       resolvedPath |-> ResolveImportPath(found.imports[i].source,
                                                          filePath)]],
       exports |-> found.exports,
       functions |-> found.functions,
       error |-> Null]

\* the number of import and export records of a program
FactsOf(program) == Len(WalkAST(program, 1).imports) + Len(WalkAST(program, 1).exports)

\* the programs of at most n import and export records
Programs(n) == {program \in UNION {[1..k -> ExportStatements] : k \in 0..n} :
                  FactsOf(program) <= n}

\* new GraphBuilder(config) over a tree of one or two files
InitExports ==
  /\ config = [entryPoints |-> <<>>]
  /\ disk \in {<<"a">>, <<"a", "b">>}
  /\ pc = "start"
  /\ counts = NoCounts
  /\ Idle

\* buildGraph, phase 2, one iteration: parseFile of the next file, which
\* parses as a module; the tree holds MaxFacts import and export records at
\* most
ExportsParseNext ==
  /\ pc = "build"
  /\ Len(parsedFiles) < Len(files)
  /\ LET file == files[Len(parsedFiles) + 1]
         left == MaxFacts - ImportsParsed(parsedFiles, 1) - ExportsParsed(parsedFiles, 1)
     IN  \E program \in Programs(left) :
           LET text == [readable |-> TRUE,
                        source |-> [module |-> Parsed(ExtractDependenciesOfProgram(
                                                        program, file.path)),
                                    script |-> Rejected(<<"SyntaxError", "script">>)]]
               r == ParseFile(cache, file.path, text)
           IN  /\ parsedFiles' = Append(parsedFiles,
                                        [file |-> file, dependencies |-> r.outcome.value])
               /\ cache' = r.cache
  /\ UNCHANGED <<logger, input, config, disk, pc, files, registered, dataset, markLog, detector,
                 result, detects, calls, counts>>

NextExports ==
  \/ ScanFiles
  \/ ExportsParseNext
  \/ RegisterNext
  \/ AddEdges
  \/ MarkEntryPointsStep

SpecExports == InitExports /\ [][NextExports]_vars

(***************************************************************************)
(* Specification of a client that holds two DependencyParser instances,    *)
(* calls parseFile on them while the files change, and clears their        *)
(* caches.                                                                 *)
(***************************************************************************)
Parsers == {"p1", "p2"}

\* what a parser has returned for a path since its cache was last cleared:
\* the result of the first call and the result of the first call that parsed
NoHistory == [first |-> Absent, parsed |-> Absent]

\* new DependencyParser(config), twice
InitCache ==
  /\ config = [entryPoints |-> <<>>]
  /\ disk = <<>>
  /\ pc = "cache"
  /\ counts = NoCounts
  /\ input = [parser \in Parsers |-> [f \in ApiFiles |-> NoHistory]]
  /\ cache = [parser \in Parsers |-> EmptyCache]
  /\ files = <<>>
  /\ parsedFiles = <<>>
  /\ registered = 0
  /\ dataset = <<>>
  /\ markLog = NoLog
  /\ detector = NoDetector
  /\ result = NoResult
  /\ detects = 0
  /\ calls = 0
  /\ logger = NoLogger

\* await parser.parseFile(f) on one of the instances, for the file f is at
\* the time; result keeps what the instance had returned for f before
CacheParseFileCall ==
  /\ pc = "cache"
  /\ calls < MaxApiCalls
  /\ \E parser \in Parsers : \E f \in ApiFiles : \E file \in FileStates(f) :
       LET r    == ParseFile(cache[parser], f, file)
           past == input[parser][f]
       IN  /\ cache' = [cache EXCEPT ![parser] = r.cache]
           /\ result' = [returned |-> TRUE, parser |-> parser, path |-> f,
                         value |-> r.outcome.value,
                         hit |-> f \in DOMAIN cache[parser],
                         past |-> past]
           /\ input' = [input EXCEPT ![parser][f] =
                          [first  |-> IF past.first = Absent THEN Given(r.outcome.value)
                                      ELSE past.first,
                           parsed |-> IF past.parsed = Absent /\ r.outcome.value.error = Null
                                      THEN Given(r.outcome.value)
                                      ELSE past.parsed]]
  /\ calls' = calls + 1
  /\ UNCHANGED <<logger, config, disk, pc, files, parsedFiles, registered, dataset, markLog,
                 detector, detects, counts>>

\* parser.clearCache() on one of the instances
ClearCacheCall ==
  /\ pc = "cache"
  /\ calls < MaxApiCalls
  /\ \E parser \in Parsers :
       /\ cache' = [cache EXCEPT ![parser] = EmptyCache]
       /\ input' = [input EXCEPT ![parser] = [f \in ApiFiles |-> NoHistory]]
       /\ result' = NoResult
  /\ calls' = calls + 1
  /\ UNCHANGED <<logger, config, disk, pc, files, parsedFiles, registered, dataset, markLog,
                 detector, detects, counts>>

NextCache == CacheParseFileCall \/ ClearCacheCall

SpecCache == InitCache /\ [][NextCache]_vars

(***************************************************************************)
(* Specification of a process that uses the Logger singleton: initLogger   *)
(* and the logger.* methods are called while earlier init() calls are      *)
(* still awaiting the file system.                                         *)
(***************************************************************************)
\* Logger.init up to its first await, for a logger that is not initialized:
\* stdoutEnabled is set, log.setLevel rebuilds the methods from the current
\* methodFactory, and ensureLogsDir is awaited
StartInit(lg, stdout) ==
  [lg EXCEPT !.stdoutEnabled = stdout,
             !.methods = lg.factory,
             !.ensuring = @ + 1,
             !.started = @ + 1]

\* Logger.rotateLogs: of the log files in the directory the newest is kept
RotateLogs(logs) == {f \in logs : \A g \in logs : g <= f}

\* Logger.init from the return of rotateLogs to its end: the log file is
\* named after the time, methodFactory is wrapped around the factory found,
\* the methods are rebuilt and the logger is initialized
FinishInit(lg) ==
  [lg EXCEPT !.rotating = @ - 1,
             !.rotations = @ + 1,
             !.logs = RotateLogs(@),
             !.currentLogFile = Given(lg.clock),
             !.named = @ + 1,
             !.factory = @ + 1,
             !.methods = lg.factory + 1,
             !.initialized = TRUE]

\* the number of lines one call of a log method appends: every wrapper
\* around the original method calls writeToFile and, with stdout enabled,
\* the method it wraps; the original method writes to the console only
LinesAppended(lg) ==
  IF lg.methods = 0 \/ lg.currentLogFile = Absent THEN 0
  ELSE IF lg.stdoutEnabled THEN lg.methods
  ELSE 1

\* the methods of the call-th log call write to the current log file
RECURSIVE AppendLines(_, _, _)
AppendLines(lg, call, n) ==
  IF n = 0 THEN lg
  ELSE AppendLines([lg EXCEPT !.appended = Append(@, [file |-> lg.currentLogFile.v,
                                                       call |-> call]),
                              !.logs = @ \cup {lg.currentLogFile.v}],
                   call, n - 1)

\* the module is loaded: const loggerInstance = new Logger(); the logs
\* directory is empty or holds the log of an earlier run
InitLogger ==
  /\ config = [entryPoints |-> <<>>]
  /\ disk = <<>>
  /\ pc = "logger"
  /\ counts = NoCounts
  /\ input = NoInput
  /\ cache = EmptyCache
  /\ files = <<>>
  /\ parsedFiles = <<>>
  /\ registered = 0
  /\ dataset = <<>>
  /\ markLog = NoLog
  /\ detector = NoDetector
  /\ result = NoResult
  /\ detects = 0
  /\ calls = 0
  /\ logger \in {[NoLogger EXCEPT !.logs = logs] : logs \in {{}, {0}}}

\* initLogger(options) while the logger is not initialized; once it is,
\* init returns at once and nothing changes
InitLoggerCall ==
  /\ pc = "logger"
  /\ ~logger.initialized
  /\ logger.started < MaxInits
  /\ \E stdout \in BOOLEAN : logger' = StartInit(logger, stdout)
  /\ UNCHANGED <<input, cache, config, disk, pc, files, parsedFiles, registered, dataset,
                 markLog, detector, result, detects, calls, counts>>

\* logger.info(message): getLogger() starts init() with the defaults when
\* the logger is not initialized and returns loglevel, whose info method is
\* then called
LogCall ==
  /\ pc = "logger"
  /\ calls < MaxApiCalls
  /\ logger.initialized \/ logger.started < MaxInits
  /\ LET lg == IF logger.initialized THEN logger ELSE StartInit(logger, TRUE)
     IN  logger' = AppendLines(lg, calls + 1, LinesAppended(lg))
  /\ calls' = calls + 1
  /\ UNCHANGED <<input, cache, config, disk, pc, files, parsedFiles, registered, dataset,
                 markLog, detector, result, detects, counts>>

\* the mkdir that an init() awaits completes: the init goes on to rotateLogs
EnsureLogsDirDone ==
  /\ pc = "logger"
  /\ logger.ensuring > 0
  /\ logger' = [logger EXCEPT !.ensuring = @ - 1, !.rotating = @ + 1]
  /\ UNCHANGED <<input, cache, config, disk, pc, files, parsedFiles, registered, dataset,
                 markLog, detector, result, detects, calls, counts>>

\* the rotateLogs that an init() awaits completes: the init runs to its end
RotateLogsDone ==
  /\ pc = "logger"
  /\ logger.rotating > 0
  /\ logger' = FinishInit(logger)
  /\ UNCHANGED <<input, cache, config, disk, pc, files, parsedFiles, registered, dataset,
                 markLog, detector, result, detects, calls, counts>>

\* a second passes
Tick ==
  /\ pc = "logger"
  /\ logger.clock < MaxTicks
  /\ logger' = [logger EXCEPT !.clock = @ + 1]
  /\ UNCHANGED <<input, cache, config, disk, pc, files, parsedFiles, registered, dataset,
                 markLog, detector, result, detects, calls, counts>>

NextLogger ==
  \/ InitLoggerCall
  \/ LogCall
  \/ EnsureLogsDirDone
  \/ RotateLogsDone
  \/ Tick

SpecLogger == InitLogger /\ [][NextLogger]_vars

(***************************************************************************)
(* Vocabulary of the properties.                                           *)
(***************************************************************************)
\* the File nodes of a dataset, read from its quads
FileNodeSet(ds) == {q.s : q \in {x \in Range(ds) : x.p = "rdf:type" /\ x.o = ErfClass("File")}}

\* the external-flagged nodes of a dataset
ExternalSet(ds) ==
  {q.s : q \in {x \in Range(ds) : x.p = "erf:isExternal" /\ x.o = Literal(<<"true">>)}}

\* the entry-point nodes of a dataset
EntrySet(ds) ==
  {q.s : q \in {x \in Range(ds) : x.p = "erf:isEntryPoint" /\ x.o = Literal(<<"true">>)}}

\* the imports edges of a dataset, as pairs <<importer, imported>>
ImportEdges(ds) == {<<q.s, q.o.v>> : q \in {x \in Range(ds) : x.p = "erf:imports"}}

\* the least set that holds S and every non-external node a member imports
RECURSIVE ImportsClosure(_, _)
ImportsClosure(ds, S) ==
  LET step == S \cup {e[2] : e \in {x \in ImportEdges(ds) :
                                      x[1] \in S /\ x[2] \notin ExternalSet(ds)}}
  IN  IF step = S THEN S ELSE ImportsClosure(ds, step)

\* the paths of the scanned files
ScannedPaths == {files[i].path : i \in 1..Len(files)}

\* the File nodes no other scanned file imports
Unimported(ds) ==
  {f \in FileNodeSet(ds) :
     ~\E g \in ScannedPaths : g # f /\ <<g, f>> \in ImportEdges(ds)}

\* buildGraph has returned
Built == pc \in {"done", "analyzed"}

\* round-half-up of 100 * r / n in exact arithmetic
ExactRound(r, n) == (200 * r + n) \div (2 * n)

(***************************************************************************)
(* C1                                                                      *)
(***************************************************************************)
\* C1: after detect() on a graph with at least one entry point (cycles and
\* self-imports included) the detector's reachable set is exactly the closure of
\* the entry points under imports edges that do not lead into an external-flagged
\* node, it holds no external module, and reachableFiles lists exactly the File
\* nodes of that closure
C1_ReachableIsClosure ==
  (pc = "api" /\ result.returned /\ EntrySet(dataset) # {}) =>
    LET closure == ImportsClosure(dataset, EntrySet(dataset))
    IN  /\ detector.reachable = closure
        /\ detector.reachable \cap ExternalSet(dataset) = {}
        /\ Range(result.reachableFiles) = FileNodeSet(dataset) \cap closure

\* detect() has returned on a graph whose entry point lies on an imports cycle
\* through a second node, and both nodes are reachable
C1_CycleTraversed ==
  /\ pc = "api" /\ result.returned
  /\ \E f \in EntrySet(dataset) \cap FileNodeSet(dataset), g \in detector.reachable :
       /\ f # g
       /\ <<f, g>> \in ImportEdges(dataset)
       /\ <<g, f>> \in ImportEdges(dataset)
       /\ f \in Range(result.reachableFiles)

(***************************************************************************)
(* C3                                                                      *)
(***************************************************************************)
\* C3: after detect() on a graph with at least one entry point deadFiles and
\* reachableFiles are disjoint, together they hold exactly the File nodes, and
\* every File node is listed once
C3_Partition ==
  (pc = "api" /\ result.returned /\ EntrySet(dataset) # {}) =>
    /\ Range(result.deadFiles) \cap Range(result.reachableFiles) = {}
    /\ Range(result.deadFiles) \cup Range(result.reachableFiles) = FileNodeSet(dataset)
    /\ Len(result.deadFiles) + Len(result.reachableFiles)
         = Cardinality(FileNodeSet(dataset))

\* detect() has returned a result with a dead file and a reachable file
C3_BothParts ==
  /\ pc = "api" /\ result.returned /\ EntrySet(dataset) # {}
  /\ Len(result.deadFiles) > 0
  /\ Len(result.reachableFiles) > 0

(***************************************************************************)
(* C10                                                                     *)
(***************************************************************************)
\* C10: when the graph has no entry point detect() returns every File node in
\* deadFiles, no reachable file, totalFiles equal to the number of File nodes
\* and reachabilityPercentage 0
C10_AllFilesDead ==
  (pc = "api" /\ result.returned /\ EntrySet(dataset) = {}) =>
    /\ Range(result.deadFiles) = FileNodeSet(dataset)
    /\ result.reachableFiles = <<>>
    /\ result.stats.totalFiles = Cardinality(FileNodeSet(dataset))
    /\ result.stats.reachabilityPercentage = 0

(***************************************************************************)
(* C4                                                                      *)
(***************************************************************************)
\* C4 as stated: reachabilityPercentage is round(100 * reachable / total) in
\* exact arithmetic (0 when there are no files), lies in 0..100, and is 100
\* exactly when there is no dead file, whatever the number of File nodes
C4_ExactRoundAndFullIffNoDead ==
  (pc = "stats" /\ result.returned) =>
    /\ result.stats.reachabilityPercentage
         = (IF counts.total = 0 THEN 0 ELSE ExactRound(counts.reachable, counts.total))
    /\ result.stats.reachabilityPercentage \in 0..100
    /\ (result.stats.reachabilityPercentage = 100) <=> (result.stats.deadFiles = 0)

\* C4 as amended: for a result computed from at least one entry point,
\* reachabilityPercentage is Math.round((reachable / total) * 100) in double
\* arithmetic, 0 when there are no files: it lies in 0..100; it is the exact
\* round-half-up of 100 * reachable / total, except that an exact tie may be
\* rounded down, and no tie is rounded down below 40 files; with at least one
\* file it is 100 when there is no dead file, and below 200 files it is 100
\* only when there is no dead file
C4_DoubleRound ==
  (pc = "stats" /\ result.returned) =>
    LET n   == counts.total
        r   == counts.reachable
        pct == result.stats.reachabilityPercentage
    IN  /\ pct \in 0..100
        /\ n = 0 => pct = 0
        /\ n > 0 =>
             /\ pct \in {ExactRound(r, n), ExactRound(r, n) - 1}
             /\ (pct # ExactRound(r, n)) => ((200 * r) % (2 * n) = n /\ n >= 40)
             /\ (result.stats.deadFiles = 0) => pct = 100
             /\ (pct = 100 /\ n < 200) => result.stats.deadFiles = 0

\* the statistics of 23 reachable files out of 40 have been computed, an exact
\* tie (57.5) that the double arithmetic rounds down
C4_TieRoundedDown ==
  /\ pc = "stats" /\ result.returned
  /\ counts = [total |-> 40, reachable |-> 23]
  /\ result.stats.reachabilityPercentage = 57
  /\ result.stats.deadFiles = 17

(***************************************************************************)
(* C2                                                                      *)
(***************************************************************************)
\* Scenario A: files a, b and c are scanned, a imports b and nothing else is
\* imported, c exports nothing, and a is the configured entry point
ScenarioA ==
  /\ config.entryPoints = << <<"a", ".js">> >>
  /\ ScannedPaths = {FullPath("a"), FullPath("b"), FullPath("c")}
  /\ FileNodeSet(dataset) = ScannedPaths
  /\ ImportEdges(dataset) = {<<FullPath("a"), FullPath("b")>>}
  /\ QueryExports(dataset, FullPath("c")) = <<>>

C7_AutoDetectFlagsUnimported ==
  (Built /\ markLog.autoRan) => markLog.autoFlagged = Unimported(dataset)

(***************************************************************************)
(* C8                                                                      *)
(***************************************************************************)
\* C8: when auto-detection has run and some scanned file has neither exports
\* nor an incoming import, another scanned file that has exports, that no file
\* imports and that is not a configured entry is not an entry point, is not in
\* reachableFiles and is in deadFiles
C8_ExportingOrphanIsDead ==
  (pc = "analyzed" /\ markLog.autoRan) =>
    \A f \in ScannedPaths :
      ( /\ Len(QueryExports(dataset, f)) > 0
        /\ ~\E e \in ImportEdges(dataset) : e[2] = f
        /\ f \notin {PathResolve(RootDir, config.entryPoints[i]) :
                       i \in 1..Len(config.entryPoints)}
        /\ \E g \in ScannedPaths \ {f} :
             /\ QueryExports(dataset, g) = <<>>
             /\ ~\E e \in ImportEdges(dataset) : e[2] = g )
      => /\ f \notin EntrySet(dataset)
         /\ f \notin Range(result.reachableFiles)
         /\ f \in Range(result.deadFiles)

(***************************************************************************)
(* C9                                                                      *)
(***************************************************************************)
\* every path a value of the manifest names, at any depth
RECURSIVE NamedPaths(_)
NamedPaths(value) ==
  CASE value.k = "str" -> {PathResolve(RootDir, value.v)}
    [] value.k = "obj" -> UNION {NamedPaths(value.entries[i].value) :
                                   i \in 1..Len(value.entries)}
    [] OTHER -> {}

\* the scanned files the manifest names in main, bin and exports
NamedScanned(packageJson) ==
  IF ~packageJson.readable THEN {}
  ELSE ( (IF packageJson.main # Null THEN {PathResolve(RootDir, packageJson.main)}
          ELSE {})
         \cup NamedPaths(packageJson.bin)
         \cup NamedPaths(packageJson.exports) ) \cap ScannedPaths

\* C9: with no configured entry, when manifest inference flags a node
\* auto-detection and the total fallback do not run and the entry points are
\* exactly the scanned files the manifest names in main, bin and exports; when
\* the manifest is unreadable or names no scanned file auto-detection runs
C9_ManifestPrecedence ==
  (Built /\ config.entryPoints = <<>>) =>
    /\ markLog.inferRan
    /\ markLog.inferred > 0 =>
         /\ ~markLog.autoRan
         /\ ~markLog.fallbackRan
         /\ EntrySet(dataset) = NamedScanned(markLog.manifest)
    /\ NamedScanned(markLog.manifest) = {} => markLog.autoRan

(***************************************************************************)
(* C11                                                                     *)
(***************************************************************************)
\* the Module nodes of a dataset
ModuleNodeSet(ds) ==
  {q.s : q \in {x \in Range(ds) : x.p = "rdf:type" /\ x.o = ErfClass("Module")}}

\* the nodes of a dataset flagged missing
MissingSet(ds) ==
  {q.s : q \in {x \in Range(ds) : x.p = "erf:isMissing" /\ x.o = Literal(<<"true">>)}}

\* C11: after buildGraph every import record with a specifier has an imports
\* edge, and the object of every imports edge is a typed node: an external
\* Module node for a package specifier, the File node of a scanned file, or a
\* File node flagged missing for a path that was not scanned
C11_ClosedUnderImports ==
  Built =>
    /\ \A i \in 1..Len(parsedFiles) :
         \A j \in 1..Len(parsedFiles[i].dependencies.imports) :
           LET imp == parsedFiles[i].dependencies.imports[j]
           IN  imp.source # Null =>
                 <<parsedFiles[i].file.path,
                   IF IsLocalSpecifier(imp.source) THEN imp.resolvedPath.path
                   ELSE imp.source>> \in ImportEdges(dataset)
    /\ \A e \in ImportEdges(dataset) :
         \/ /\ ~IsLocalSpecifier(e[2])
            /\ e[2] \in ModuleNodeSet(dataset) \cap ExternalSet(dataset)
         \/ /\ e[2] \in ScannedPaths
            /\ e[2] \in FileNodeSet(dataset) \ MissingSet(dataset)
         \/ /\ e[2] \notin ScannedPaths
            /\ e[2] \in FileNodeSet(dataset) \cap MissingSet(dataset)

\* a build has returned whose only scanned file imports a package and a path
\* that was not scanned
C11_ExternalAndMissingTargets ==
  /\ Built
  /\ ScannedPaths = {FullPath("a")}
  /\ ImportEdges(dataset) = {<<FullPath("a"), <<"pkg">> >>,
                             <<FullPath("a"), FullPath("b")>>}
  /\ FullPath("b") \in MissingSet(dataset)

(***************************************************************************)
(* C12                                                                     *)
(***************************************************************************)
\* C12: every import whose resolved local path was not scanned has a File node
\* flagged missing and an imports edge to it, and detect() lists that node in
\* reachableFiles when the closure of the entry points under imports holds it
\* and in deadFiles otherwise
C12_MissingNodeLikeFile ==
  /\ Built =>
       \A i \in 1..Len(parsedFiles) :
         \A j \in 1..Len(parsedFiles[i].dependencies.imports) :
           LET imp == parsedFiles[i].dependencies.imports[j]
           IN  (imp.source # Null /\ IsLocalSpecifier(imp.source)
                /\ imp.resolvedPath.path \notin ScannedPaths) =>
                 /\ imp.resolvedPath.path \in FileNodeSet(dataset) \cap MissingSet(dataset)
                 /\ <<parsedFiles[i].file.path, imp.resolvedPath.path>>
                      \in ImportEdges(dataset)
  /\ (pc = "analyzed" /\ EntrySet(dataset) # {}) =>
       \A m \in MissingSet(dataset) :
         IF m \in ImportsClosure(dataset, EntrySet(dataset))
         THEN m \in Range(result.reachableFiles) /\ m \notin Range(result.deadFiles)
         ELSE m \in Range(result.deadFiles) /\ m \notin Range(result.reachableFiles)

\* detect() has run on a graph in which a missing file, not itself an entry
\* point, is reachable through its importer
C12_MissingReached ==
  /\ pc = "analyzed"
  /\ \E m \in MissingSet(dataset) \ EntrySet(dataset) :
       /\ m \in Range(result.reachableFiles)
       /\ \E f \in EntrySet(dataset) : <<f, m>> \in ImportEdges(dataset)

(***************************************************************************)
(* C13                                                                     *)
(***************************************************************************)
\* the Function nodes of a dataset
FunctionNodeSet(ds) ==
  {q.s : q \in {x \in Range(ds) : x.p = "rdf:type" /\ x.o = ErfClass("Function")}}

\* C13: in a built graph every File node id is "file://" followed by an
\* absolute path, every external Module id is the bare specifier and every
\* Function id is path#name; and the one form is used throughout, so that a
\* configured path that resolves to a scanned file is matched by the
\* configured-entry loop
C13_CanonicalIds ==
  Built =>
    /\ \A f \in FileNodeSet(dataset) : StartsWith(f, "file://") /\ f[2] = RootDir[1]
    /\ \A m \in ModuleNodeSet(dataset) \cap ExternalSet(dataset) : ~IsLocalSpecifier(m)
    /\ \A g \in FunctionNodeSet(dataset) : \E k \in 1..Len(g) : g[k] = "#"
    /\ \A e \in ImportEdges(dataset) :
         e[1] \in FileNodeSet(dataset)
         /\ e[2] \in FileNodeSet(dataset) \cup ModuleNodeSet(dataset)
    /\ \A i \in 1..Len(config.entryPoints) :
         PathResolve(RootDir, config.entryPoints[i]) \in ScannedPaths =>
           \E id \in markLog.configFlagged :
             id \in {PathResolve(RootDir, config.entryPoints[i]),
                     <<"file://">> \o PathResolve(RootDir, config.entryPoints[i])}

(***************************************************************************)
(* C14                                                                     *)
(***************************************************************************)
\* the number of positions of a sequence that hold x
Occurrences(seq, x) == Cardinality({k \in 1..Len(seq) : seq[k] = x})

\* the target id of an import record, Null when it has no specifier
TargetOf(imp) ==
  IF imp.source = Null THEN Null
  ELSE IF IsLocalSpecifier(imp.source) THEN imp.resolvedPath.path ELSE imp.source

\* the targets of the import records of a parsed file, in source order
TargetsOf(parsed) ==
  [j \in 1..Len(parsed.dependencies.imports) |-> TargetOf(parsed.dependencies.imports[j])]

RECURSIVE RecordsWithTarget(_, _)
RecordsWithTarget(parsed, i) ==
  IF i > Len(parsed) THEN 0
  ELSE Cardinality({j \in 1..Len(TargetsOf(parsed[i])) : TargetsOf(parsed[i])[j] # Null})
       + RecordsWithTarget(parsed, i + 1)

\* C14: a file's imports list holds a target once per import record of that
\* target (the records are on different lines), and getStats().imports counts
\* every record
C14_EdgeMultiplicity ==
  Built =>
    /\ \A i \in 1..Len(parsedFiles) :
         \A t \in Range(TargetsOf(parsedFiles[i])) \ {Null} :
           Occurrences(QueryImports(dataset, parsedFiles[i].file.path), t)
             = Occurrences(TargetsOf(parsedFiles[i]), t)
    /\ GetStats(dataset).imports = RecordsWithTarget(parsedFiles, 1)

(***************************************************************************)
(* C15: when one id is registered more than once with different sizes,     *)
(* getNodeMetadata(id) returns the size of the most recent registration    *)
(* that gave one, also when that registration repeats an earlier size.     *)
(***************************************************************************)
\* the sizes the registrations of id gave, in call order
RECURSIVE SizesGiven(_, _)
SizesGiven(regs, id) ==
  IF regs = <<>> THEN <<>>
  ELSE LET rest == SizesGiven(SubSeq(regs, 1, Len(regs) - 1), id)
           last == regs[Len(regs)]
       IN  IF last.id = id /\ last.size # Null THEN Append(rest, last.size) ELSE rest

\* the answer of getNodeMetadata is about the graph as it is now
MetadataFresh == pc = "meta" /\ result.returned /\ result.at = calls

C15_LastWriteWins ==
  MetadataFresh =>
    LET given == SizesGiven(input, result.of)
    IN  given # <<>> =>
          /\ "size" \in DOMAIN result.metadata.props
          /\ result.metadata.props["size"] = given[Len(given)]

(***************************************************************************)
(* C16                                                                     *)
(***************************************************************************)
\* the exports edges of a dataset, as pairs <<file, label of the export node>>
ExportLabels(ds, id) == Range(QueryExports(ds, id))

\* the label buildGraph gives to the export node of an export record
LabelOf(exp) ==
  CASE exp.type = <<"default">> -> <<"default">>
    [] exp.type = <<"all">> -> <<"*">>
    [] OTHER -> exp.property

\* C16: buildGraph fails only in the scan, before any file is parsed; after a
\* build every scanned file is a File node; a file whose parse failed has
\* parseError true and the error message and no imports or exports edge; every
\* other file has parseError false, an imports edge for each of its import
\* records with a target and an export node for each of its export records
C16_ParseFailureIsData ==
  /\ pc = "failed" => (files = <<>> /\ parsedFiles = <<>> /\ dataset = <<>>)
  /\ Built =>
       /\ Len(parsedFiles) = Len(disk)
       /\ \A i \in 1..Len(parsedFiles) :
            LET id   == parsedFiles[i].file.path
                deps == parsedFiles[i].dependencies
                meta == GetNodeMetadata(dataset, id).props
            IN  /\ id = FullPath(disk[i])
                /\ id \in FileNodeSet(dataset)
                /\ "parseError" \in DOMAIN meta
                /\ IF deps.error # Null
                   THEN /\ meta["parseError"] = <<"true">>
                        /\ "parseErrorMessage" \in DOMAIN meta
                        /\ meta["parseErrorMessage"] = deps.error
                        /\ ~\E e \in ImportEdges(dataset) : e[1] = id
                        /\ ExportLabels(dataset, id) = {}
                   ELSE /\ meta["parseError"] = <<"false">>
                        /\ "parseErrorMessage" \notin DOMAIN meta
                        /\ {e[2] : e \in {x \in ImportEdges(dataset) : x[1] = id}}
                             = Range(TargetsOf(parsedFiles[i])) \ {Null}
                        /\ ExportLabels(dataset, id)
                             = {LabelOf(deps.exports[j]) : j \in 1..Len(deps.exports)}

\* a build has returned in which a.js failed to parse and b.js, parsed after
\* it, imports a.js and exports a default
C16_FailedAndParsed ==
  /\ Built
  /\ Len(parsedFiles) = 2
  /\ parsedFiles[1].dependencies.error # Null
  /\ parsedFiles[2].dependencies.error = Null
  /\ <<FullPath("b"), FullPath("a")>> \in ImportEdges(dataset)
  /\ ExportLabels(dataset, FullPath("b")) = {<<"default">>}

(***************************************************************************)
(* C17                                                                     *)
(***************************************************************************)
\* the last parseFile call found nothing cached for its path
ParsedAfresh == pc = "parse" /\ result.returned /\ ~result.hit

\* C17: parseFile never raises; a call that finds nothing cached and can read
\* the file calls parse() with the module grammar first and with the script
\* grammar only when the first attempt threw, and returns the facts of the
\* first attempt that succeeded; when both attempts throw, or the file cannot
\* be read, it returns empty imports, exports and calls lists and the message
\* of the error (of the first attempt, or of the read)
C17_ParseFileNeverRaises ==
  /\ (pc = "parse" /\ result.returned) => ~result.outcome.raised
  /\ ParsedAfresh =>
       LET file  == input[1].file
           out   == result.outcome
           Empty(v) == /\ DOMAIN v = {"imports", "exports", "calls", "error"}
                       /\ v.imports = <<>> /\ v.exports = <<>> /\ v.calls = <<>>
       IN  IF ~file.readable
           THEN out.attempts = <<>> /\ Empty(out.value) /\ out.value.error = <<"ENOENT">>
           ELSE /\ out.attempts = IF file.source.module.ok THEN <<"module">>
                                  ELSE <<"module", "script">>
                /\ file.source.module.ok => out.value = file.source.module.deps
                /\ (~file.source.module.ok /\ file.source.script.ok) =>
                     out.value = file.source.script.deps
                /\ (~file.source.module.ok /\ ~file.source.script.ok) =>
                     /\ Empty(out.value)
                     /\ out.value.error = file.source.module.message

\* a call has returned for a readable file that both grammars reject
C17_BothAttemptsFailed ==
  /\ ParsedAfresh
  /\ input[1].file.readable
  /\ ~input[1].file.source.module.ok
  /\ ~input[1].file.source.script.ok
  /\ result.outcome.attempts = <<"module", "script">>
  /\ result.outcome.value.error = <<"SyntaxError", "module">>

(***************************************************************************)
(* C18                                                                     *)
(***************************************************************************)
\* the graph a new GraphBuilder builds from the facts and the manifest the
\* last build met
OwnGraph == BuildGraph(<<>>, parsedFiles, config.entryPoints, markLog.manifest).ds

\* C18: the graph a buildGraph call returns holds no node, edge or entry-point
\* flag produced by another buildGraph call on the same GraphBuilder: every
\* quad of it is one that the call itself adds to an empty graph
C18_IndependentGraphs ==
  (pc = "rebuild" /\ calls > 0) => Range(dataset) \subseteq Range(OwnGraph)

(***************************************************************************)
(* C19                                                                     *)
(***************************************************************************)
\* the scanned files other than f that have an imports edge to f
ImportersOf(f) == {g \in ScannedPaths \ {f} : <<g, f>> \in ImportEdges(dataset)}

\* the export slots detect() listed, as pairs <<file, export name>>
DeadExportSlots ==
  {<<result.deadExports[i].file, result.deadExports[i].exportName>> :
     i \in 1..Len(result.deadExports)}

\* C19: after detect() on a built graph, an export slot of a file is listed in
\* deadExports exactly when no other scanned file has an imports edge to the
\* file, whichever export the importer names and whether or not the importer
\* is reachable; nothing else is listed
C19_DeadExportsIffUnimported ==
  pc = "analyzed" =>
    /\ \A f \in FileNodeSet(dataset) :
         \A name \in ExportLabels(dataset, f) :
           <<f, name>> \in DeadExportSlots <=> ImportersOf(f) = {}
    /\ \A slot \in DeadExportSlots :
         /\ slot[1] \in FileNodeSet(dataset)
         /\ slot[2] \in ExportLabels(dataset, slot[1])

\* detect() has run on a graph in which the only importer of an exporting
\* file is a dead file, and listed no export
C19_ImportedByDeadFile ==
  /\ pc = "analyzed"
  /\ \E f \in FileNodeSet(dataset) :
       /\ ExportLabels(dataset, f) # {}
       /\ ImportersOf(f) # {}
       /\ ImportersOf(f) \subseteq Range(result.deadFiles)
  /\ result.deadExports = <<>>

(***************************************************************************)
(* C20                                                                     *)
(***************************************************************************)
\* the nodes that S reaches along at most k imports edges, external or not
RECURSIVE Within(_, _, _)
Within(ds, S, k) ==
  IF k = 0 THEN S
  ELSE LET W == Within(ds, S, k - 1)
       IN  W \cup {e[2] : e \in {x \in ImportEdges(ds) : x[1] \in W}}

\* the nodes of the graph
NodesOf(ds) == {e[1] : e \in ImportEdges(ds)} \cup {e[2] : e \in ImportEdges(ds)}
                 \cup EntrySet(ds)

\* S reaches t along imports edges
Reaches(ds, S, t) == t \in Within(ds, S, Cardinality(NodesOf(ds)))

\* the number of edges of a shortest path from a node of S to t, which S reaches
Distance(ds, S, t) ==
  CHOOSE k \in 0..Cardinality(NodesOf(ds)) :
    /\ t \in Within(ds, S, k)
    /\ \A j \in 0..(k - 1) : t \notin Within(ds, S, j)

\* p starts at an entry point, ends at t and follows imports edges
IsEntryPath(ds, p, t) ==
  /\ Len(p) > 0
  /\ p[1] \in EntrySet(ds)
  /\ p[Len(p)] = t
  /\ \A i \in 1..(Len(p) - 1) : <<p[i], p[i + 1]>> \in ImportEdges(ds)

\* the answer of getReachabilityPath is about the graph as it is now
PathFresh == pc = "path" /\ result.returned /\ result.at = calls

\* C20, as claimed: the path returned starts at an entry point, ends at the
\* target, follows imports edges and is a shortest such path from any entry
\* point; none is returned exactly when no entry point reaches the target
C20_ShortestFromAnyEntry ==
  PathFresh =>
    /\ result.path = NoPath <=> ~Reaches(dataset, EntrySet(dataset), result.target)
    /\ result.path # NoPath =>
         /\ IsEntryPath(dataset, result.path, result.target)
         /\ Len(result.path) - 1 = Distance(dataset, EntrySet(dataset), result.target)

\* C20, amended: the path returned starts at the first entry point, in the
\* order the entry-point flags were added, that reaches the target, ends at the
\* target, follows imports edges and is a shortest path from that entry
\* point; none is returned exactly when no entry point reaches the target
C20_ShortestFromFirstEntry ==
  PathFresh =>
    /\ result.path = NoPath <=> ~Reaches(dataset, EntrySet(dataset), result.target)
    /\ result.path # NoPath =>
         LET entryPoints == QueryEntryPoints(dataset)
             first == CHOOSE i \in 1..Len(entryPoints) :
                        /\ Reaches(dataset, {entryPoints[i]}, result.target)
                        /\ \A j \in 1..(i - 1) :
                             ~Reaches(dataset, {entryPoints[j]}, result.target)
         IN  /\ IsEntryPath(dataset, result.path, result.target)
             /\ result.path[1] = entryPoints[first]
             /\ Len(result.path) - 1
                  = Distance(dataset, {entryPoints[first]}, result.target)

\* a path of one edge was returned to a target that is itself an entry point
C20_LongerThanShortest ==
  /\ PathFresh
  /\ result.target \in EntrySet(dataset)
  /\ result.path # NoPath
  /\ Len(result.path) = 2

(***************************************************************************)
(* C21                                                                     *)
(***************************************************************************)
\* C21: a detect() call on a detector whose previous call was a detect() on
\* the same graph leaves the detector's reachable set as it was and returns
\* the same deadFiles and reachableFiles lists as that previous call
C21_DetectIdempotent ==
  [][(pc = "det" /\ detects' = detects + 1 /\ result'.call = "detect" /\ result'.repeat)
       => /\ detector'.reachable = detector.reachable
          /\ result'.value.deadFiles = result.value.deadFiles
          /\ result'.value.reachableFiles = result.value.reachableFiles]_vars

\* detect() has been called a second time on an unchanged graph that has a
\* reachable file and a dead file
C21_SecondDetect ==
  /\ pc = "det"
  /\ result.returned
  /\ result.call = "detect"
  /\ result.repeat
  /\ Len(result.value.reachableFiles) > 0
  /\ Len(result.value.deadFiles) > 0

(***************************************************************************)
(* C25                                                                     *)
(***************************************************************************)
\* what a new DeadCodeDetector returns for the graph as it is now
FreshDetect == Detect(dataset, [made |-> TRUE, visited |-> {}, reachable |-> {}])

\* C25: a detect() call returns what a new detector returns for the graph at
\* the time of the call, whatever calls the detector served before and however
\* the graph changed since, and isFileDead answers from that result
C25_DetectStartsAfresh ==
  (pc = "det" /\ result.returned /\ result.at = calls) =>
    IF result.call = "detect"
    THEN result.value = FreshDetect.result
    ELSE result.value.dead = (result.value.of \notin FreshDetect.det.reachable)

(***************************************************************************)
(* C22                                                                     *)
(***************************************************************************)
\* detect() of the duplicate finder has just returned
DupReturned == pc = "dup" /\ result.returned /\ result.at + 1 = calls

\* the records registered so far for functions of the given bare name, with
\* the class and file they were registered with
RegisteredNamed(name) == SelectSeq(input, LAMBDA func : ExtractBareName(func.name) = name)

\* C22: every reported group carries the category that the priority order
\* gives for the class and file its Function nodes were registered with; two
\* methods of different classes make a cross-class group
C22_CategoryOfRegistered ==
  DupReturned =>
    \A i \in 1..Len(result.value.duplicates) :
      LET g == result.value.duplicates[i]
      IN  g.category = Categorize(RegisteredNamed(g.name))

(***************************************************************************)
(* C23                                                                     *)
(***************************************************************************)
\* the Function nodes of the graph whose label has the given bare name
FunctionsNamed(name) ==
  {id \in Range(QueryNodesByType(dataset, "function")) :
     ExtractBareName(GetNodeMetadata(dataset, id).props["label"]) = name}

\* the bare names of the Function nodes of the graph
BareNames ==
  {ExtractBareName(GetNodeMetadata(dataset, id).props["label"]) :
     id \in Range(QueryNodesByType(dataset, "function"))}

\* the names of the reported groups
ReportedNames == {result.value.duplicates[i].name : i \in 1..Len(result.value.duplicates)}

\* C23: a bare name is reported exactly when at least threshold Function nodes
\* have it and, with ignoreCommon on, it is not one of the common names; no
\* name is reported twice and each count is the number of those nodes
C23_ReportedIffFrequentAndNotCommon ==
  DupReturned =>
    LET options == DuplicateOptions(config)
    IN  /\ \A name \in BareNames :
             name \in ReportedNames <=>
               /\ Cardinality(FunctionsNamed(name)) >= options.threshold
               /\ options.ignoreCommon => name \notin CommonNames
        /\ ReportedNames \subseteq BareNames
        /\ Cardinality(ReportedNames) = Len(result.value.duplicates)
        /\ \A i \in 1..Len(result.value.duplicates) :
             result.value.duplicates[i].count =
               Cardinality(FunctionsNamed(result.value.duplicates[i].name))

(***************************************************************************)
(* C24                                                                     *)
(***************************************************************************)
\* the reported groups whose Function nodes were registered as methods of
\* more than one class and no bare function
CrossClassGroups ==
  {i \in 1..Len(result.value.duplicates) :
     Categorize(RegisteredNamed(result.value.duplicates[i].name)) = "cross-class"}

\* C24: the redundancy score is 0 without functions and otherwise the smaller
\* of 1 and (sum of the reported counts + 2 x number of cross-class groups) /
\* (2 x number of Function nodes); it lies between 0 and 1
C24_RedundancyScore ==
  DupReturned =>
    LET score == result.value.stats.redundancyScore
        total == Cardinality(Range(QueryNodesByType(dataset, "function")))
        num   == SumCounts(result.value.duplicates) + 2 * Cardinality(CrossClassGroups)
        den   == 2 * total
    IN  /\ score.den > 0 /\ 0 <= score.num /\ score.num <= score.den
        /\ IF total = 0 THEN score.num = 0
           ELSE IF num < den THEN score.num * den = num * score.den
           ELSE score.num = score.den

(***************************************************************************)
(* C28                                                                     *)
(***************************************************************************)
\* the unit-cost insert/delete/substitute edit distance of two names, by the
\* textbook recurrence over their prefixes
RECURSIVE EditPrefixRow(_, _, _, _)
EditPrefixRow(above, row, a, ch) ==
  LET j == Len(row)
      Min(x, y) == IF x < y THEN x ELSE y
      delete     == above[j + 1] + 1
      insert     == row[j] + 1
      substitute == above[j] + (IF a[j] = ch THEN 0 ELSE 1)
  IN  IF j > Len(a) THEN row
      ELSE EditPrefixRow(above, Append(row, Min(Min(delete, insert), substitute)), a, ch)

\* the distances of the prefixes of a to the first i characters of b; index
\* j + 1 is the prefix of length j
RECURSIVE EditPrefixes(_, _, _)
EditPrefixes(a, b, i) ==
  IF i = 0 THEN [j \in 1..(Len(a) + 1) |-> j - 1]
  ELSE EditPrefixRow(EditPrefixes(a, b, i - 1), <<i>>, a, b[i])

EditDistance(a, b) == EditPrefixes(a, b, Len(b))[Len(a) + 1]

\* the bare names a run can register, and their standard distances
RunNames == {ExtractBareName(func.name) : func \in DupFunctions}
StandardDistance == [a \in RunNames, b \in RunNames |-> EditDistance(a, b)]

\* the distance the duplicate finder computes is the standard one
DistanceIsStandard ==
  \A a \in RunNames : \A b \in RunNames : LevenshteinDistance(a, b) = StandardDistance[a, b]

\* (maxLen - edit distance) / maxLen of two names that are not both empty
Similarity(a, b) ==
  LET maxLen == IF Len(a) > Len(b) THEN Len(a) ELSE Len(b)
  IN  [num |-> maxLen - StandardDistance[a, b], den |-> maxLen]

\* the bare names the grouping keeps: every one with ignoreCommon off, and the
\* ones whose lower-cased form is no common name with ignoreCommon on
KeptNames ==
  {name \in BareNames :
     ~(DuplicateOptions(config).ignoreCommon /\ ToLowerCase(name) \in CommonNames)}

\* similarGroups reports exactly the unordered pairs of distinct names of the
\* given set that are similar enough, each once and as two names
SimilarPairsOf(names) ==
  LET entries == result.value.similarGroups
      options == DuplicateOptions(config)
  IN  /\ \A i \in 1..Len(entries) :
           /\ Len(entries[i].names) = 2
           /\ entries[i].names[1] # entries[i].names[2]
           /\ Range(entries[i].names) \subseteq names
           /\ FractionAtLeast(Similarity(entries[i].names[1], entries[i].names[2]),
                              options.similarityThreshold)
      /\ \A a \in names : \A b \in names \ {a} :
           FractionAtLeast(Similarity(a, b), options.similarityThreshold)
             => Cardinality({i \in 1..Len(entries) : Range(entries[i].names) = {a, b}}) = 1

\* C28 as stated: with includeSimilar on, the entries are the similar pairs
\* of distinct bare names of the Function nodes, one entry each; an entry has
\* two names and a similarity strictly below 1.0; the distance used is the
\* standard edit distance
C28_SimilarPairsOfAllNames ==
  (DupReturned /\ DuplicateOptions(config).includeSimilar) =>
    /\ SimilarPairsOf(BareNames)
    /\ \A i \in 1..Len(result.value.similarGroups) :
         result.value.similarGroups[i].similarity < 100
    /\ DistanceIsStandard

\* C28: with includeSimilar on, the entries are the similar pairs of distinct
\* bare names that the grouping keeps, one entry each; an entry has two names
\* and the two-decimal text of their similarity, which is strictly below 1.0
\* before rounding; the distance used is the standard edit distance
C28_SimilarPairsOfKeptNames ==
  (DupReturned /\ DuplicateOptions(config).includeSimilar) =>
    /\ SimilarPairsOf(KeptNames)
    /\ \A i \in 1..Len(result.value.similarGroups) :
         LET e == result.value.similarGroups[i]
             similarity == Similarity(e.names[1], e.names[2])
         IN  /\ FractionBelowOne(similarity)
             /\ e.similarity = ToFixed2(similarity)
    /\ DistanceIsStandard

\* with the default exclusion, get is registered beside validate and
\* validated: the one entry is the pair validate / validated, at 0.89
C28_SimilarPairReported ==
  /\ DupReturned
  /\ DuplicateOptions(config).includeSimilar
  /\ DuplicateOptions(config).ignoreCommon
  /\ {GetName, Validate, Validated} \subseteq BareNames
  /\ Len(result.value.similarGroups) = 1
  /\ Range(result.value.similarGroups[1].names) = {Validate, Validated}
  /\ result.value.similarGroups[1].similarity = 89

(***************************************************************************)
(* C26                                                                     *)
(***************************************************************************)
\* the export-slot nodes linked from a file by an exports edge
ExportSlots(filePath) ==
  {q.o : q \in Range(MatchSP(dataset, GetOrCreateNode(filePath), "erf:exports"))}

\* the export slots of a file that carry the line of the given export record
SlotsOfRecord(filePath, exp) ==
  {slot \in ExportSlots(filePath) :
     \E q \in Range(dataset) :
       q.s = slot.v /\ q.p = "code:line" /\ q.o = Literal(exp.line)}

\* C26: once the edges of a build are added, every export record of every
\* scanned file has an export slot linked from the file, so a file with an
\* export record has a non-empty list of exports
C26_EveryExportRecordHasSlot ==
  pc \in {"mark", "done"} =>
    \A i \in 1..Len(parsedFiles) :
      LET filePath == parsedFiles[i].file.path
          exports  == parsedFiles[i].dependencies.exports
      IN  /\ \A j \in 1..Len(exports) : SlotsOfRecord(filePath, exports[j]) # {}
          /\ Len(exports) > 0 => Len(QueryExports(dataset, filePath)) > 0

(***************************************************************************)
(* C27                                                                     *)
(***************************************************************************)
\* every instance's cache holds exactly the paths it has parsed since it was
\* last cleared, each with the result of the first call that parsed it,
\* whatever was done with the other instance
CacheIsOwnHistory ==
  \A parser \in Parsers :
    /\ DOMAIN cache[parser] = {f \in ApiFiles : input[parser][f].parsed # Absent}
    /\ \A f \in DOMAIN cache[parser] : cache[parser][f] = input[parser][f].parsed.v

\* C27 as stated: a parseFile call on a path the instance was asked for
\* before, with no clearCache since, is served from the cache and returns
\* the result of the first call, whether that call succeeded or failed; the
\* caches of the instances are independent
C27_FirstResultReturned ==
  (pc = "cache" /\ result.returned) =>
    /\ result.past.first # Absent =>
         result.hit /\ result.value = result.past.first.v
    /\ CacheIsOwnHistory

\* C27: a parseFile call on a path the instance has parsed before, with no
\* clearCache since, is served from the cache and returns the result of the
\* first call that parsed it; otherwise the file is read again, a failed
\* call leaving nothing in the cache; the caches of the instances are
\* independent
C27_FirstParsedResultReturned ==
  (pc = "cache" /\ result.returned) =>
    /\ result.past.parsed # Absent =>
         result.hit /\ result.value = result.past.parsed.v
    /\ result.past.parsed = Absent => ~result.hit
    /\ (result.value.error # Null /\ ~result.hit) =>
         result.path \notin DOMAIN cache[result.parser]
    /\ CacheIsOwnHistory

\* the first call for a path failed, a later one parsed it, and now the
\* instance answers from its cache while the other instance has cached nothing
C27_ServedAfterFailure ==
  /\ pc = "cache"
  /\ result.returned
  /\ result.hit
  /\ result.past.first # Absent
  /\ result.past.first.v.error # Null
  /\ result.value = result.past.parsed.v
  /\ \E other \in Parsers \ {result.parser} : cache[other] = EmptyCache

(***************************************************************************)
(* C30                                                                     *)
(***************************************************************************)
\* the number of lines in the log files that come from the given log call
TimesAppended(call) ==
  Cardinality({i \in 1..Len(logger.appended) : logger.appended[i].call = call})

\* C30: however initLogger and the log methods are interleaved, log rotation
\* runs at most once, at most one log file name is chosen, methodFactory is
\* wrapped at most once, and every log call made so far is in the log files
\* exactly once
C30_InitialisedOnce ==
  pc = "logger" =>
    /\ logger.rotations <= 1
    /\ logger.named <= 1
    /\ logger.factory <= 1
    /\ \A call \in 1..calls : TimesAppended(call) = 1

(***************************************************************************)
(* C29                                                                     *)
(***************************************************************************)
\* C29: after a build and a detect() on its graph, getReachabilityPath finds
\* a path to a File node exactly when detect() lists the node among the
\* reachable files
C29_PathIffReachable ==
  pc = "analyzed" =>
    \A t \in FileNodeSet(dataset) :
      (GetReachabilityPath(dataset, t) # NoPath) <=> t \in Range(result.reachableFiles)

\* the graph imports an external module or has a dead file, and a file that
\* is no entry point is reachable and has a path
C29_PathAndNoPath ==
  /\ pc = "analyzed"
  /\ \E t \in Range(result.reachableFiles) :
       /\ t \notin Range(QueryEntryPoints(dataset))
       /\ Len(GetReachabilityPath(dataset, t)) >= 2
  /\ \E u \in Range(result.deadFiles) : GetReachabilityPath(dataset, u) = NoPath

====
